---- MODULE Spec2Model ----
(***************************************************************************)
(* PathNavigator: the attribute-name converter, the shortcut registry and  *)
(* the folder tree, modelled from src/src/pathnavigator.                    *)
(*                                                                         *)
(* A name (a Python str) is a sequence of one-character strings.  A path   *)
(* is a sequence of names.                                                 *)
(***************************************************************************)
EXTENDS Integers, Sequences, FiniteSets, TLC

(***************************************************************************)
(* Bounds of the model.                                                    *)
(***************************************************************************)
\* longest name handed to a single to_valid_name call (SpecName)
MaxLen == 4

\* longest sequence of to_valid_name calls on one converter (SpecConv)
MaxCalls == 3

\* deepest level below the root directory, on disk and in the tree
MaxDepth == 2

\* most changes made to the filesystem from outside (SpecTree)
MaxFsChanges == 1

\* most calls made on Folder nodes (SpecTree)
MaxFolderCalls == 2

(***************************************************************************)
(* Characters.  Python's \w is [a-zA-Z0-9_] plus the other Unicode         *)
(* alphanumerics; "^2" stands for one of those, SUPERSCRIPT TWO, which \w  *)
(* matches although it cannot occur in an identifier.                      *)
(***************************************************************************)
Lower ==
  {"a", "b", "c", "d", "e", "f", "g", "h", "i", "j", "k", "l", "m", "n", "o", "p", "q", "r", "s", "t", "u", "v", "w", "x", "y", "z"}

Upper == {"F", "N", "T"}

Letters == Lower \cup Upper

Digits == {"0", "1", "2", "3", "4", "5", "6", "7", "8", "9"}

OtherAlnum == {"^2"}

\* characters the regex class \w matches
IsWordChar(c) == c \in Letters \cup Digits \cup OtherAlnum \cup {"_"}

\* characters the regex class \d matches
IsDecimalDigit(c) == c \in Digits

\* str.isidentifier: XID_Start (or "_") first, XID_Continue after
IsIdStart(c) == c \in Letters \cup {"_"}

IsIdContinue(c) == c \in Letters \cup Digits \cup {"_"}

isidentifier(name) ==
  /\ Len(name) > 0
  /\ IsIdStart(name[1])
  /\ \A i \in 2..Len(name) : IsIdContinue(name[i])

startswith(name, prefix) ==
  /\ Len(name) >= Len(prefix)
  /\ SubSeq(name, 1, Len(prefix)) = prefix

\* keyword.kwlist of the Python standard library
kwlist ==
  {
    <<"F", "a", "l", "s", "e">>, <<"N", "o", "n", "e">>, <<"T", "r", "u", "e">>,
    <<"a", "n", "d">>, <<"a", "s">>, <<"a", "s", "s", "e", "r", "t">>,
    <<"a", "s", "y", "n", "c">>, <<"a", "w", "a", "i", "t">>, <<"b", "r", "e", "a", "k">>,
    <<"c", "l", "a", "s", "s">>, <<"c", "o", "n", "t", "i", "n", "u", "e">>, <<"d", "e", "f">>,
    <<"d", "e", "l">>, <<"e", "l", "i", "f">>, <<"e", "l", "s", "e">>,
    <<"e", "x", "c", "e", "p", "t">>, <<"f", "i", "n", "a", "l", "l", "y">>, <<"f", "o", "r">>,
    <<"f", "r", "o", "m">>, <<"g", "l", "o", "b", "a", "l">>, <<"i", "f">>,
    <<"i", "m", "p", "o", "r", "t">>, <<"i", "n">>, <<"i", "s">>,
    <<"l", "a", "m", "b", "d", "a">>, <<"n", "o", "n", "l", "o", "c", "a", "l">>,
    <<"n", "o", "t">>, <<"o", "r">>, <<"p", "a", "s", "s">>, <<"r", "a", "i", "s", "e">>,
    <<"r", "e", "t", "u", "r", "n">>, <<"t", "r", "y">>, <<"w", "h", "i", "l", "e">>,
    <<"w", "i", "t", "h">>, <<"y", "i", "e", "l", "d">>
  }

iskeyword(name) == name \in kwlist

\* the default of the invalid_list parameter of _pn_is_valid_attribute_name
invalid_list ==
  {
    <<"s", "c">>, <<"r", "e", "l", "o", "a", "d">>, <<"d", "i", "r">>, <<"l", "s">>,
    <<"r", "e", "m", "o", "v", "e">>, <<"j", "o", "i", "n">>, <<"g", "e", "t">>,
    <<"m", "k", "d", "i", "r">>,
    <<"s", "e", "t", "_", "s", "h", "o", "r", "t", "c", "u", "t">>,
    <<"c", "h", "d", "i", "r">>,
    <<"a", "d", "d", "_", "t", "o", "_", "s", "y", "s", "_", "p", "a", "t", "h">>,
    <<"n", "a", "m", "e">>, <<"p", "a", "r", "e", "n", "t", "_", "p", "a", "t", "h">>,
    <<"s", "u", "b", "f", "o", "l", "d", "e", "r", "s">>, <<"f", "i", "l", "e", "s">>
  }

\* the prefix of the names PathNavigator keeps for itself
PrivatePrefix == <<"_", "p", "n", "_">>

(***************************************************************************)
(* Python dicts are functions with a finite domain.                        *)
(***************************************************************************)
EmptyDict == <<>>

Put(d, k, v) == [x \in (DOMAIN d) \cup {k} |-> IF x = k THEN v ELSE d[x]]

Del(d, k) == [x \in (DOMAIN d) \ {k} |-> d[x]]

(***************************************************************************)
(* AttributeNameConverter (att_name_convertor.py).                          *)
(* A converter is the record of its two dicts.  A call that may raise      *)
(* returns a record with the exception's name in err ("none": it returned). *)
(***************************************************************************)
NewConverter == [org_to_valid_name |-> EmptyDict, valid_name_to_org |-> EmptyDict]

\* a validity check that takes str.isalpha for str.isidentifier
is_valid_isalpha(name, invalid_names) ==
  IF startswith(name, PrivatePrefix)
    THEN "ValueError"
    ELSE IF /\ Len(name) > 0
            /\ \A i \in 1..Len(name) : name[i] \in Letters
            /\ ~iskeyword(name)
            /\ name \notin invalid_names
           THEN "True"
           ELSE "False"

\* a validity check that lets the private prefix through
is_valid_without_prefix_check(name, invalid_names) ==
  IF isidentifier(name) /\ ~iskeyword(name) /\ name \notin invalid_names
    THEN "True"
    ELSE "False"

\* "ValueError" when the call raises, else the bool it returns
pn_is_valid_attribute_name(name, invalid_names) ==
  IF startswith(name, PrivatePrefix)
    THEN "ValueError"
    ELSE IF isidentifier(name) /\ ~iskeyword(name) /\ name \notin invalid_names
           THEN "True"
           ELSE "False"

\* re.sub(r'\W|^(?=\d)', '_', name)
re_sub(name) ==
  LET swapped == [i \in 1..Len(name) |-> IF IsWordChar(name[i]) THEN name[i] ELSE "_"]
  IN  IF Len(name) > 0 /\ IsDecimalDigit(name[1])
        THEN <<"_">> \o swapped
        ELSE swapped

\* a rewrite that leaves out the forced leading underscore
valid_name_without_forced_underscore(name) ==
  IF iskeyword(re_sub(name)) THEN Append(re_sub(name), "_") ELSE re_sub(name)

\* the name _pn_convert_to_valid_attribute_name computes
valid_name_of(name) ==
  LET subbed   == re_sub(name)
      prefixed == IF startswith(subbed, <<"_">>) THEN subbed ELSE <<"_">> \o subbed
  IN  IF iskeyword(prefixed) THEN Append(prefixed, "_") ELSE prefixed

\* both dicts after _pn_convert_to_valid_attribute_name stored the pair
store_mapping(c, name, valid_name) ==
  [org_to_valid_name |-> Put(c.org_to_valid_name, name, valid_name),
   valid_name_to_org |-> Put(c.valid_name_to_org, valid_name, name)]

pn_convert_to_valid_attribute_name(c, name) ==
  [conv |-> store_mapping(c, name, valid_name_of(name)),
   err  |-> "none",
   ret  |-> valid_name_of(name)]

to_valid_name(c, name, invalid_names) ==
  LET valid == pn_is_valid_attribute_name(name, invalid_names)
  IN  CASE valid = "ValueError" -> [conv |-> c, err |-> "ValueError", ret |-> <<>>]
        [] valid = "False"      -> pn_convert_to_valid_attribute_name(c, name)
        [] OTHER                -> [conv |-> c, err |-> "none", ret |-> name]

pn_needs_name_mapping(c, name) == name \in DOMAIN c.valid_name_to_org

\* a lookup that never consults the stored mapping
get_without_mapping(c, name) == name

\* AttributeNameConverter.get
get(c, name) ==
  IF pn_needs_name_mapping(c, name) THEN c.valid_name_to_org[name] ELSE name

(***************************************************************************)
(* The converter as shortcut.py uses it.  shortcut.py builds its converter  *)
(* with its own reserved names and calls get_valid and get_org on it;       *)
(* att_name_convertor.py as it stands has neither, so both follow the       *)
(* specification: a lookup in the recorded mapping that passes an unknown   *)
(* name through.                                                            *)
(***************************************************************************)
\* Shortcut._pn_invalid_name_list
sc_invalid_name_list ==
  {
    <<"a", "d", "d">>, <<"r", "e", "m", "o", "v", "e">>, <<"c", "l", "e", "a", "r">>,
    <<"l", "s">>, <<"g", "e", "t">>, <<"g", "e", "t", "_", "s", "t", "r">>,
    <<"t", "o", "_", "j", "s", "o", "n">>, <<"t", "o", "_", "y", "a", "m", "l">>,
    <<"t", "o", "_", "d", "i", "c", "t">>, <<"l", "o", "a", "d", "_", "d", "i", "c", "t">>,
    <<"l", "o", "a", "d", "_", "j", "s", "o", "n">>,
    <<"l", "o", "a", "d", "_", "y", "a", "m", "l">>
  }

\* the valid attribute name recorded for an original name, else the name
get_valid(c, name) ==
  IF name \in DOMAIN c.org_to_valid_name THEN c.org_to_valid_name[name] ELSE name

\* the original name recorded for a valid attribute name, else the name
get_org(c, name) ==
  IF name \in DOMAIN c.valid_name_to_org THEN c.valid_name_to_org[name] ELSE name

(***************************************************************************)
(* pathlib.  A path string is the sequence of its '/'-separated parts;     *)
(* Path(value) drops the empty parts and the '.' parts, and str(Path) is    *)
(* the string of the parts that are left.                                   *)
(***************************************************************************)
KeptPart(part) == part \notin {"", "."}

Path(value) == SelectSeq(value, KeptPart)

str(path) == path

(***************************************************************************)
(* Shortcut (shortcut.py).  A registry is its instance __dict__: the slot   *)
(* '_pn_converter', which holds the converter until something else is       *)
(* stored in it, and under every other key the Path of a shortcut.          *)
(***************************************************************************)
PnConverterName ==
  <<"_", "p", "n", "_", "c", "o", "n", "v", "e", "r", "t", "e", "r">>

ConverterSlot(c) == [type |-> "AttributeNameConverter", conv |-> c, value |-> <<>>]

\* the slot after a plain value was stored in it
ValueSlot(value) == [type |-> "str", conv |-> NewConverter, value |-> value]

\* Shortcut.__post_init__
NewShortcut == [dict |-> EmptyDict, pn_converter |-> ConverterSlot(NewConverter)]

HasConverter(s) == s.pn_converter.type = "AttributeNameConverter"

\* Shortcut.__setattr__ for an attribute of a taken name, overwrite disregarded
Shortcut_setattr_overwriting(s, name, value, overwrite) ==
  IF name = PnConverterName
    THEN [sc |-> [s EXCEPT !.pn_converter = ValueSlot(value)], err |-> "none"]
    ELSE [sc |-> [s EXCEPT !.dict = Put(s.dict, name, Path(value))], err |-> "none"]

\* Shortcut.__setattr__
Shortcut_setattr(s, name, value, overwrite) ==
  IF name = PnConverterName
    THEN [sc |-> [s EXCEPT !.pn_converter = ValueSlot(value)], err |-> "none"]
    ELSE IF name \in DOMAIN s.dict /\ ~overwrite
           THEN [sc |-> s, err |-> "AttributeError"]
           ELSE [sc |-> [s EXCEPT !.dict = Put(s.dict, name, Path(value))],
                 err |-> "none"]

\* Shortcut.__getattr__, called by name; the slot holds no path
Shortcut_getattr(s, name) ==
  IF name = PnConverterName
    THEN [err |-> "none", ret |-> <<"<", s.pn_converter.type, ">">>]
    ELSE IF name \notin DOMAIN s.dict
           THEN [err |-> "AttributeError", ret |-> <<>>]
           ELSE [err |-> "none", ret |-> s.dict[name]]

\* Shortcut.add
Shortcut_add(s, name, path, overwrite) ==
  IF ~HasConverter(s)
    THEN [sc |-> s, err |-> "AttributeError"]
    ELSE LET r == to_valid_name(s.pn_converter.conv, name, sc_invalid_name_list)
         IN  IF r.err # "none"
               THEN [sc |-> s, err |-> r.err]
               ELSE Shortcut_setattr([s EXCEPT !.pn_converter = ConverterSlot(r.conv)],
                                     r.ret, path, overwrite)

\* Shortcut.get
Shortcut_get(s, name) ==
  IF ~HasConverter(s)
    THEN [err |-> "AttributeError", ret |-> <<>>]
    ELSE Shortcut_getattr(s, get_valid(s.pn_converter.conv, name))

\* Shortcut.__delattr__
Shortcut_delattr(s, name) ==
  IF name = PnConverterName
    THEN [sc |-> [s EXCEPT !.pn_converter = [type |-> "deleted", conv |-> NewConverter,
                                             value |-> <<>>]],
          err |-> IF s.pn_converter.type = "deleted" THEN "AttributeError" ELSE "none"]
    ELSE IF name \notin DOMAIN s.dict
           THEN [sc |-> s, err |-> "AttributeError"]
           ELSE [sc |-> [s EXCEPT !.dict = Del(s.dict, name)], err |-> "none"]

\* Shortcut.remove
Shortcut_remove(s, name) ==
  IF ~HasConverter(s)
    THEN [sc |-> s, err |-> "AttributeError"]
    ELSE Shortcut_delattr(s, get_valid(s.pn_converter.conv, name))

\* Shortcut.clear: every key of __dict__ but those that begin with '_pn_'
Shortcut_clear(s) ==
  [sc  |-> [s EXCEPT !.dict = [k \in {x \in DOMAIN s.dict : startswith(x, PrivatePrefix)}
                                 |-> s.dict[k]]],
   err |-> "none"]

\* the keys to_dict goes through
ExportedKeys(s) == {k \in DOMAIN s.dict : ~startswith(k, PrivatePrefix)}

\* Shortcut.to_dict(to_str=True)
Shortcut_to_dict(s) ==
  IF ExportedKeys(s) # {} /\ ~HasConverter(s)
    THEN [err |-> "AttributeError", ret |-> EmptyDict]
    ELSE LET c == s.pn_converter.conv
             org_names == {get_org(c, k) : k \in ExportedKeys(s)}
         IN  [err |-> "none",
              ret |-> [o \in org_names |->
                         str(s.dict[CHOOSE k \in ExportedKeys(s) : get_org(c, k) = o])]]

\* one turn of the loop of Shortcut.load_dict
load_item(s, name, path, overwrite) ==
  IF ~HasConverter(s)
    THEN [sc |-> s, err |-> "AttributeError"]
    ELSE LET r == to_valid_name(s.pn_converter.conv, name, sc_invalid_name_list)
         IN  IF r.err # "none"
               THEN [sc |-> s, err |-> r.err]
               ELSE Shortcut_add([s EXCEPT !.pn_converter = ConverterSlot(r.conv)],
                                 r.ret, Path(path), overwrite)

\* Shortcut.load_dict, data.items() given as the sequence of names it yields
RECURSIVE Shortcut_load_dict(_, _, _, _)
Shortcut_load_dict(s, data, names, overwrite) ==
  IF names = <<>>
    THEN [sc |-> s, err |-> "none"]
    ELSE LET r == load_item(s, Head(names), data[Head(names)], overwrite)
         IN  IF r.err # "none"
               THEN r
               ELSE Shortcut_load_dict(r.sc, data, Tail(names), overwrite)

\* the orders in which a dict of these keys can be gone through
Orders(keys) ==
  {o \in [1..Cardinality(keys) -> keys] : \A i, j \in DOMAIN o : o[i] = o[j] => i = j}

(***************************************************************************)
(* The filesystem.  A path is the sequence of its parts below '/'; fsys     *)
(* maps every path that exists to "dir" or "file".                          *)
(***************************************************************************)
IsPrefix(p, q) == Len(p) <= Len(q) /\ SubSeq(q, 1, Len(p)) = p

Prefixes(path) == {SubSeq(path, 1, n) : n \in 1..Len(path)}

exists(fsys, path) == path \in DOMAIN fsys

is_dir(fsys, path) == exists(fsys, path) /\ fsys[path] = "dir"

is_file(fsys, path) == exists(fsys, path) /\ fsys[path] = "file"

\* Path.mkdir(parents=True, exist_ok=True) on a path that does not exist
Path_mkdir(fsys, path) ==
  IF \E q \in Prefixes(path) : is_file(fsys, q)
    THEN [fs |-> fsys, err |-> "NotADirectoryError"]
    ELSE [fs  |-> [q \in (DOMAIN fsys) \cup Prefixes(path) |->
                     IF q \in DOMAIN fsys THEN fsys[q] ELSE "dir"],
          err |-> "none"]

\* shutil.rmtree / os.remove: the entry and all below it are gone
Removed(fsys, path) == [q \in {x \in DOMAIN fsys : ~IsPrefix(path, x)} |-> fsys[q]]

\* a node that would place every directory right under the root directory
NewFolder_under_root(name, parent_path, pn_object) ==
  [name |-> name, parent_path |-> <<"r">>, files |-> <<>>,
   pn_object |-> pn_object,
   converter |-> [org_to_valid_name |-> <<>>, valid_name_to_org |-> <<>>]]

(***************************************************************************)
(* Folder (folder.py).  The tree is kept as an arena: a node is found under *)
(* the sequence of subfolders keys that leads to it from the root, so       *)
(* node.subfolders is the set of keys that extend that sequence by one.     *)
(* pn_object is "root" when the node holds the PathNavigator and "None"     *)
(* when the field was left at its default.                                  *)
(***************************************************************************)
NewFolder(name, parent_path, pn_object) ==
  [name |-> name, parent_path |-> parent_path, files |-> EmptyDict,
   pn_object |-> pn_object, converter |-> NewConverter]

\* Folder.get() without fname
Folder_get(node) == Append(node.parent_path, node.name)

\* Folder.join
join(node, args) == Folder_get(node) \o args

\* the keys of node.subfolders for the node at pos
subfolders(tr, pos) ==
  {q[Len(q)] : q \in {x \in DOMAIN tr : Len(x) = Len(pos) + 1 /\ IsPrefix(pos, x)}}

\* an assignment that would leave the old value's descendants in place
SetSubfolder_keeping_descendants(tr, pos, node) ==
  [q \in (DOMAIN tr) \cup {pos} |-> IF q = pos THEN node ELSE tr[q]]

\* parent.subfolders[key] = node, for the child position pos of the parent:
\* whatever hung below the old value goes with it
SetSubfolder(tr, pos, node) ==
  [q \in {x \in DOMAIN tr : ~IsPrefix(pos, x)} \cup {pos} |->
     IF q = pos THEN node ELSE tr[q]]

\* Folder.__getattr__
Folder_getattr(tr, pos, item) ==
  IF item \in subfolders(tr, pos)
    THEN [kind |-> "Folder", pos |-> Append(pos, item), path |-> <<>>]
    ELSE IF item \in DOMAIN tr[pos].files
           THEN [kind |-> "file", pos |-> <<>>, path |-> tr[pos].files[item]]
           ELSE [kind |-> "AttributeError", pos |-> <<>>, path |-> <<>>]

(***************************************************************************)
(* PathNavigator._pn_load_nested_directories (pathnavigator.py).  order is  *)
(* the order in which os.scandir yields the names, here the same in every   *)
(* directory of one walk; st carries the tree, the root's converter and the *)
(* exception that ended the walk.                                           *)
(***************************************************************************)
RECURSIVE load_nested_directories(_, _, _, _, _, _)
RECURSIVE load_entry(_, _, _, _, _, _, _)
\* one entry of the scan: r is what to_valid_name made of its name
load_entry(fsys, st, current_path, pos, order, i, r) ==
  IF r.err # "none"
    THEN [st EXCEPT !.err = r.err]
    ELSE IF is_dir(fsys, Append(current_path, order[i]))
      THEN load_nested_directories(
             fsys,
             load_nested_directories(
               fsys,
               [tree |-> SetSubfolder(st.tree, Append(pos, r.ret),
                                      NewFolder(order[i], current_path, "root")),
                conv |-> r.conv,
                err  |-> "none"],
               Append(current_path, order[i]), Append(pos, r.ret), order, 1),
             current_path, pos, order, i + 1)
      ELSE load_nested_directories(
             fsys,
             [tree |-> [st.tree EXCEPT ![pos].files =
                                         Put(@, r.ret, Append(current_path, order[i]))],
              conv |-> r.conv,
              err  |-> "none"],
             current_path, pos, order, i + 1)

load_nested_directories(fsys, st, current_path, pos, order, i) ==
  IF st.err # "none" \/ i > Len(order)
    THEN st
    ELSE IF ~exists(fsys, Append(current_path, order[i]))
      THEN load_nested_directories(fsys, st, current_path, pos, order, i + 1)
      ELSE load_entry(fsys, st, current_path, pos, order, i,
                      to_valid_name(st.conv, order[i], invalid_list))

\* the path of the root directory, root_dir = '/r'
RootPath == <<"r">>

RootPos == <<>>

\* the root after the walk: the converter is the root's own
walk_result(walked) ==
  [tree |-> [walked.tree EXCEPT ![RootPos].converter = walked.conv],
   err  |-> walked.err]

\* PathNavigator.reload: the walk from the root directory, the root's
\* converter being the one every name of the walk goes through
reload(fsys, tr, order) ==
  walk_result(load_nested_directories(
                fsys, [tree |-> tr, conv |-> tr[RootPos].converter, err |-> "none"],
                RootPath, RootPos, order, 1))

(***************************************************************************)
(* Folder.mkdir.                                                            *)
(***************************************************************************)
\* the loop of Folder.mkdir over path_parts: self is the node at pos, whose
\* converter rewrites every part, and cur is current_folder
RECURSIVE mkdir_parts(_, _, _, _)
RECURSIVE mkdir_part(_, _, _, _, _)
\* one part of the loop: r is what to_valid_name made of it
\* a loop that would take the path of self for the parent of every new node
mkdir_part_below_self(tr, pos, cur, parts, r) ==
  IF r.err # "none"
    THEN [tree |-> tr, err |-> r.err]
    ELSE mkdir_parts(
           IF r.ret \in subfolders(tr, cur)
             THEN [tr EXCEPT ![pos].converter = r.conv]
             ELSE SetSubfolder([tr EXCEPT ![pos].converter = r.conv], Append(cur, r.ret),
                               NewFolder(Head(parts), Folder_get(tr[pos]), "None")),
           pos, Append(cur, r.ret), Tail(parts))

mkdir_part(tr, pos, cur, parts, r) ==
  IF r.err # "none"
    THEN [tree |-> tr, err |-> r.err]
    ELSE mkdir_parts(
           IF r.ret \in subfolders(tr, cur)
             THEN [tr EXCEPT ![pos].converter = r.conv]
             ELSE SetSubfolder([tr EXCEPT ![pos].converter = r.conv], Append(cur, r.ret),
                               NewFolder(Head(parts), Folder_get(tr[cur]), "None")),
           pos, Append(cur, r.ret), Tail(parts))

mkdir_parts(tr, pos, cur, parts) ==
  IF parts = <<>>
    THEN [tree |-> tr, err |-> "none"]
    ELSE mkdir_part(tr, pos, cur, parts,
                    to_valid_name(tr[pos].converter, Head(parts), invalid_list))

\* what a reload leaves
reloaded(fsys, rl) == [fs |-> fsys, tree |-> rl.tree, err |-> rl.err]

\* the end of Folder.mkdir: self._pn_object._auto_reload, then reload()
reload_if_auto(fsys, tr, pos, auto, order) ==
  IF tr[pos].pn_object = "None"
    THEN [fs |-> fsys, tree |-> tr, err |-> "AttributeError"]
    ELSE IF auto
           THEN reloaded(fsys, reload(fsys, tr, order))
           ELSE [fs |-> fsys, tree |-> tr, err |-> "none"]

\* Folder.mkdir after the directory and the nodes: made is what became of
\* the filesystem, grown what became of the tree
mkdir_end(fsys, tr, pos, made, grown, auto, order) ==
  IF made.err # "none"
    THEN [fs |-> fsys, tree |-> tr, err |-> made.err]
    ELSE IF grown.err # "none"
           THEN [fs |-> made.fs, tree |-> grown.tree, err |-> grown.err]
           ELSE reload_if_auto(made.fs, grown.tree, pos, auto, order)

\* Folder.mkdir(*args) on the node at pos
Folder_mkdir(fsys, tr, pos, args, auto, order) ==
  mkdir_end(fsys, tr, pos,
            IF exists(fsys, join(tr[pos], args))
              THEN [fs |-> fsys, err |-> "none"]
              ELSE Path_mkdir(fsys, join(tr[pos], args)),
            mkdir_parts(tr, pos, pos, args), auto, order)

(***************************************************************************)
(* Folder.remove.                                                           *)
(***************************************************************************)
\* shutil.rmtree(path)
rmtree(fsys, path) ==
  IF ~exists(fsys, path)
    THEN [fs |-> fsys, err |-> "FileNotFoundError"]
    ELSE IF is_file(fsys, path)
           THEN [fs |-> fsys, err |-> "NotADirectoryError"]
           ELSE [fs |-> Removed(fsys, path), err |-> "none"]

\* os.remove(path)
os_remove(fsys, path) ==
  IF ~exists(fsys, path)
    THEN [fs |-> fsys, err |-> "FileNotFoundError"]
    ELSE IF is_dir(fsys, path)
           THEN [fs |-> fsys, err |-> "IsADirectoryError"]
           ELSE [fs |-> Removed(fsys, path), err |-> "none"]

\* del parent.subfolders[key] for the child position pos: the node and all
\* below it are out of the tree
DelSubfolder(tr, pos) == [q \in {x \in DOMAIN tr : ~IsPrefix(pos, x)} |-> tr[q]]

\* branches that would drop the key before the filesystem is touched
remove_entry_forgetting_first(fsys, tr, pos, valid_name, org_name) ==
  IF valid_name \in subfolders(tr, pos)
    THEN [fs   |-> rmtree(fsys, join(tr[pos], <<org_name>>)).fs,
          tree |-> DelSubfolder(tr, Append(pos, valid_name)),
          err  |-> rmtree(fsys, join(tr[pos], <<org_name>>)).err]
    ELSE IF valid_name \in DOMAIN tr[pos].files
      THEN [fs   |-> os_remove(fsys, tr[pos].files[valid_name]).fs,
            tree |-> [tr EXCEPT ![pos].files = Del(@, valid_name)],
            err  |-> os_remove(fsys, tr[pos].files[valid_name]).err]
      ELSE [fs |-> fsys, tree |-> tr, err |-> "none"]

\* the branches of Folder.remove, the key and the name of the entry known
remove_entry(fsys, tr, pos, valid_name, org_name) ==
  IF valid_name \in subfolders(tr, pos)
    THEN [fs   |-> rmtree(fsys, join(tr[pos], <<org_name>>)).fs,
          tree |-> IF rmtree(fsys, join(tr[pos], <<org_name>>)).err = "none"
                     THEN DelSubfolder(tr, Append(pos, valid_name))
                     ELSE tr,
          err  |-> rmtree(fsys, join(tr[pos], <<org_name>>)).err]
    ELSE IF valid_name \in DOMAIN tr[pos].files
      THEN [fs   |-> os_remove(fsys, tr[pos].files[valid_name]).fs,
            tree |-> IF os_remove(fsys, tr[pos].files[valid_name]).err = "none"
                       THEN [tr EXCEPT ![pos].files = Del(@, valid_name)]
                       ELSE tr,
            err  |-> os_remove(fsys, tr[pos].files[valid_name]).err]
      ELSE [fs |-> fsys, tree |-> tr, err |-> "none"]

\* the end of Folder.remove, reached when nothing was raised before
remove_end(done, pos, auto, order) ==
  IF done.err # "none" THEN done ELSE reload_if_auto(done.fs, done.tree, pos, auto, order)

remove_converted(fsys, tr, pos, r, auto, order) ==
  IF r.err # "none"
    THEN [fs |-> fsys, tree |-> tr, err |-> r.err]
    ELSE remove_end(remove_entry(fsys, [tr EXCEPT ![pos].converter = r.conv], pos,
                                 r.ret, get(r.conv, r.ret)),
                    pos, auto, order)

\* Folder.remove(name) on the node at pos
Folder_remove(fsys, tr, pos, name, auto, order) ==
  remove_converted(fsys, tr, pos, to_valid_name(tr[pos].converter, name, invalid_list),
                   auto, order)

(***************************************************************************)
(* Folder.ls, Folder.get(fname) and Folder.set_sc.  A call that reloads     *)
(* goes on with self: the root is filled by the walk in place, every other  *)
(* node is at most replaced in its parent by a new Folder, so its own files *)
(* and subfolders are after the reload what they were before.               *)
(***************************************************************************)
\* one line of Folder.ls: the name it prints, and the key after '->' when the
\* printed name is no valid attribute name
ls_line(c, key) ==
  [name  |-> get(c, key), key |-> key,
   arrow |-> pn_is_valid_attribute_name(get(c, key), invalid_list) = "False"]

\* Folder.ls() on the node at pos
Folder_ls(tr, pos) ==
  LET c    == tr[pos].converter
      keys == subfolders(tr, pos) \cup DOMAIN tr[pos].files
  IN  IF \E k \in keys : pn_is_valid_attribute_name(get(c, k), invalid_list) = "ValueError"
        THEN [err |-> "ValueError", dirs |-> {}, files |-> {}]
        ELSE [err   |-> "none",
              dirs  |-> {ls_line(c, k) : k \in subfolders(tr, pos)},
              files |-> {ls_line(c, k) : k \in DOMAIN tr[pos].files}]

\* the keys self holds after a reload that made new_tr of old_tr
keys_after_reload(old_tr, new_tr, pos, with_subfolders) ==
  LET of == IF pos = RootPos THEN new_tr ELSE old_tr
  IN  (DOMAIN of[pos].files) \cup (IF with_subfolders THEN subfolders(of, pos) ELSE {})

files_after_reload(old_tr, new_tr, pos) ==
  IF pos = RootPos THEN new_tr[pos].files ELSE old_tr[pos].files

\* Folder.get(fname) from the lookup of the key on: rl is what a reload gives
get_tracked(kept, pos, key, here, auto, rl) ==
  IF key \in keys_after_reload(kept, kept, pos, TRUE)
    THEN [tree |-> kept, err |-> "none", ret |-> here]
    ELSE IF kept[pos].pn_object = "None"
      THEN [tree |-> kept, err |-> "AttributeError", ret |-> <<>>]
      ELSE IF ~auto
        THEN [tree |-> kept, err |-> "ValueError", ret |-> <<>>]
        ELSE IF rl.err # "none"
          THEN [tree |-> rl.tree, err |-> rl.err, ret |-> <<>>]
          ELSE IF key \in keys_after_reload(kept, rl.tree, pos, TRUE)
            THEN [tree |-> rl.tree, err |-> "none", ret |-> here]
            ELSE [tree |-> rl.tree, err |-> "ValueError", ret |-> <<>>]

get_converted(fsys, tr, kept, pos, fname, r, auto, order) ==
  IF r.err # "none"
    THEN [tree |-> tr, err |-> r.err, ret |-> <<>>]
    ELSE get_tracked(kept, pos, r.ret, join(kept[pos], <<fname>>), auto,
                     reload(fsys, kept, order))

\* Folder.get(fname) with fname given
Folder_get_fname(fsys, tr, pos, fname, auto, order) ==
  get_converted(fsys, tr,
                [tr EXCEPT ![pos].converter =
                             to_valid_name(tr[pos].converter, fname, invalid_list).conv],
                pos, fname, to_valid_name(tr[pos].converter, fname, invalid_list),
                auto, order)

\* str of a name, and of a path below the root directory 'r'
RECURSIVE as_str(_)
as_str(name) == IF name = <<>> THEN "" ELSE Head(name) \o as_str(Tail(name))

fspath(path) == [i \in DOMAIN path |-> IF i = 1 THEN path[1] ELSE as_str(path[i])]

\* self._pn_object.sc.add(name, path)
sc_added(tr, s, pos, added) ==
  IF tr[pos].pn_object = "None"
    THEN [tree |-> tr, sc |-> s, err |-> "AttributeError"]
    ELSE [tree |-> tr, sc |-> added.sc, err |-> added.err]

sc_add(tr, s, pos, name, path) ==
  sc_added(tr, s, pos, Shortcut_add(s, name, fspath(path), FALSE))

\* Folder.set_sc with a filename from the lookup of the key on: rl is what a
\* reload gives
set_sc_tracked(kept, s, pos, name, key, auto, rl) ==
  IF key \in DOMAIN kept[pos].files
    THEN sc_add(kept, s, pos, name, kept[pos].files[key])
    ELSE IF kept[pos].pn_object = "None"
      THEN [tree |-> kept, sc |-> s, err |-> "AttributeError"]
      ELSE IF ~auto
        THEN [tree |-> kept, sc |-> s, err |-> "ValueError"]
        ELSE IF rl.err # "none"
          THEN [tree |-> rl.tree, sc |-> s, err |-> rl.err]
          ELSE IF key \in DOMAIN files_after_reload(kept, rl.tree, pos)
            THEN sc_add(rl.tree, s, pos, name, files_after_reload(kept, rl.tree, pos)[key])
            ELSE [tree |-> rl.tree, sc |-> s, err |-> "ValueError"]

set_sc_converted(fsys, tr, kept, s, pos, name, r, auto, order) ==
  IF r.err # "none"
    THEN [tree |-> tr, sc |-> s, err |-> r.err]
    ELSE set_sc_tracked(kept, s, pos, name, r.ret, auto, reload(fsys, kept, order))

\* Folder.set_sc(name, filename); given is FALSE for filename=None
Folder_set_sc(fsys, tr, s, pos, name, given, filename, auto, order) ==
  IF ~given
    THEN sc_add(tr, s, pos, name, Folder_get(tr[pos]))
    ELSE set_sc_converted(
           fsys, tr,
           [tr EXCEPT ![pos].converter =
                        to_valid_name(tr[pos].converter, filename, invalid_list).conv],
           s, pos, name, to_valid_name(tr[pos].converter, filename, invalid_list),
           auto, order)

(***************************************************************************)
(* Shortcut.add_all (shortcut.py).  A pattern is a string of literal        *)
(* characters, so that search finds it wherever it is a substring; names is *)
(* the order in which dir_path.iterdir() yields the entries.                *)
(***************************************************************************)
\* re.compile(pattern).search(name)
re_search(pattern, name) ==
  \E i \in 1..(Len(name) - Len(pattern) + 1) :
    SubSeq(name, i, i + Len(pattern) - 1) = pattern

\* skip(entry): a pattern that is None or empty is not compiled
skip(entry_name, include, exclude) ==
  \/ exclude # <<>> /\ re_search(exclude, entry_name)
  \/ include # <<>> /\ ~re_search(include, entry_name)

\* the branch of the mode, and its test of the entry
mode_takes(fsys, mode, path) ==
  CASE mode = "all"     -> TRUE
    [] mode = "files"   -> is_file(fsys, path)
    [] mode = "folders" -> is_dir(fsys, path)
    [] OTHER            -> FALSE

RECURSIVE add_all_entries(_, _, _, _, _, _, _, _, _)
\* after self.add for one entry: an exception ends the loop
add_all_added(fsys, added, directory, mode, overwrite, prefix, include, exclude, names) ==
  IF added.err # "none"
    THEN added
    ELSE add_all_entries(fsys, added.sc, directory, mode, overwrite, prefix,
                         include, exclude, Tail(names))

add_all_entries(fsys, s, directory, mode, overwrite, prefix, include, exclude, names) ==
  IF names = <<>>
    THEN [sc |-> s, err |-> "none"]
    ELSE IF \/ ~exists(fsys, Append(directory, Head(names)))
            \/ skip(Head(names), include, exclude)
            \/ ~mode_takes(fsys, mode, Append(directory, Head(names)))
      THEN add_all_entries(fsys, s, directory, mode, overwrite, prefix,
                           include, exclude, Tail(names))
      ELSE add_all_added(fsys,
                         Shortcut_add(s, prefix \o Head(names),
                                      fspath(Append(directory, Head(names))), overwrite),
                         directory, mode, overwrite, prefix, include, exclude, names)

\* Shortcut.add_all
Shortcut_add_all(fsys, s, directory, mode, overwrite, prefix, include, exclude, names) ==
  IF ~is_dir(fsys, directory)
    THEN [sc |-> s, err |-> "NotADirectoryError"]
    ELSE add_all_entries(fsys, s, directory, mode, overwrite, prefix, include, exclude, names)

(***************************************************************************)
(* Inputs.                                                                  *)
(***************************************************************************)
Alphabet == {"_", "p", "n", "s", "l", "i", ".", "-", "1", "^2"}

RECURSIVE NamesUpTo(_)
NamesUpTo(n) ==
  IF n = 0
    THEN {<<>>}
    ELSE LET shorter == NamesUpTo(n - 1)
         IN  shorter \cup {Append(s, c) : s \in {t \in shorter : Len(t) = n - 1},
                                          c \in Alphabet}

\* every name a single call is tried on
Names == NamesUpTo(MaxLen)

\* the names a sequence of calls draws from: two names that rewrite to the
\* same key, that key itself, a plain identifier, a keyword, a method name,
\* and two names around the private prefix
CallNames ==
  {<<".", "n">>, <<"-", "n">>, <<"_", "n">>, <<"n">>, <<"i", "s">>, <<"l", "s">>,
   <<"_", "p", "n", "_">>, <<".", "p", "n", "_">>}

\* shortcut names: two that rewrite to the same key, that key, one that the
\* converter refuses, one that rewrites to the converter's own slot, and one
\* whose rewritten form is still no identifier
ShortcutNames ==
  {<<".", "n">>, <<"-", "n">>, <<"_", "n">>, <<"_", "p", "n", "_">>,
   <<".", "p", "n", "_", "c", "o", "n", "v", "e", "r", "t", "e", "r">>, <<"^2">>}

\* path strings: /r/x and /r//y
PathStrings == {<<"r", "x">>, <<"r", "", "y">>}

\* names of filesystem entries and of mkdir arguments: two that rewrite to
\* the key '_a_b', and that key itself
FsNames == {<<"a", ".", "b">>, <<"a", "-", "b">>, <<"_", "a", "_", "b">>}

\* the paths of the model's filesystem: at most MaxDepth levels below the root
RECURSIVE PathsBelow(_, _)
PathsBelow(path, depth) ==
  IF depth = 0
    THEN {}
    ELSE UNION {{Append(path, n)} \cup PathsBelow(Append(path, n), depth - 1) : n \in FsNames}

RECURSIVE ArgsUpTo(_)
ArgsUpTo(n) ==
  IF n = 0
    THEN {}
    ELSE {<<c>> : c \in FsNames} \cup {<<c>> \o rest : c \in FsNames, rest \in ArgsUpTo(n - 1)}

(***************************************************************************)
(* State.                                                                   *)
(***************************************************************************)
VARIABLES
  converter,   \* the AttributeNameConverter under test
  log,         \* its to_valid_name calls so far: [name, err, ret]
  sc,          \* the Shortcut under test
  call,        \* the last call on it, with the exception it raised
  loaded,      \* the Shortcut that load_dict filled from sc's to_dict
  fs,          \* the filesystem below and including the root directory
  tree,        \* the Folder nodes reachable from the PathNavigator
  auto_reload, \* the PathNavigator's reload-on-every-call flag
  fcall,       \* the last call on a Folder node, with the exception it raised
  nfs,         \* changes made to the filesystem from outside so far
  ncalls       \* calls made on Folder nodes so far

convVars == <<converter, log>>

scVars == <<sc, call, loaded>>

treeVars == <<fs, tree, auto_reload, fcall, nfs, ncalls>>

vars == <<converter, log, sc, call, loaded, fs, tree, auto_reload, fcall, nfs, ncalls>>

NoCall == [op |-> "none", name |-> <<>>, path |-> <<>>, overwrite |-> FALSE, err |-> "none"]

NotLoaded == [sc |-> NewShortcut, err |-> "none"]

\* what a call returned: None, a Folder (by its position), or a path
NoRet == [kind |-> "None", pos |-> <<>>, path |-> <<>>]

\* what the node held under the key of a call before the call
NoPre == [in_subfolders |-> FALSE, in_files |-> FALSE, file |-> <<>>, is_file |-> FALSE]

NoFolderCall ==
  [op |-> "none", pos |-> <<>>, args |-> <<>>, path |-> <<>>, blocked |-> FALSE,
   owner |-> "root", err |-> "none", ret |-> NoRet, pre |-> NoPre]

\* PathNavigator('/r') on an empty directory /r, with a fresh Shortcut, next
\* to a fresh AttributeNameConverter
InitObjects ==
  /\ converter = NewConverter
  /\ log = <<>>
  /\ sc = NewShortcut
  /\ call = NoCall
  /\ loaded = NotLoaded
  /\ fs = (RootPath :> "dir")
  /\ tree = (RootPos :> NewFolder(RootPath[1], <<>>, "root"))
  /\ fcall = NoFolderCall
  /\ nfs = 0
  /\ ncalls = 0

Init == InitObjects /\ auto_reload = FALSE

InitTree == InitObjects /\ auto_reload \in BOOLEAN

(***************************************************************************)
(* The converter on its own.                                                *)
(***************************************************************************)
\* one call converter.to_valid_name(name)
ToValidName(name) ==
  LET r == to_valid_name(converter, name, invalid_list)
  IN  /\ converter' = r.conv
      /\ log' = Append(log, [name |-> name, err |-> r.err, ret |-> r.ret])
      /\ UNCHANGED <<scVars, treeVars>>

\* a single call on a fresh converter, on any name up to MaxLen
CallOnce ==
  /\ log = <<>>
  /\ \E name \in Names : ToValidName(name)

NextName == CallOnce

SpecName == Init /\ [][NextName]_vars

\* a sequence of calls on one converter
Call ==
  /\ Len(log) < MaxCalls
  /\ \E name \in CallNames : ToValidName(name)

NextConv == Call

SpecConv == Init /\ [][NextConv]_vars

(***************************************************************************)
(* The shortcut registry.                                                   *)
(***************************************************************************)
\* sc.add(name, path, overwrite)
Add ==
  \E name \in ShortcutNames, path \in PathStrings, overwrite \in BOOLEAN :
    LET r == Shortcut_add(sc, name, path, overwrite)
    IN  /\ sc' = r.sc
        /\ call' = [op |-> "add", name |-> name, path |-> path,
                    overwrite |-> overwrite, err |-> r.err]
        /\ loaded' = NotLoaded
        /\ UNCHANGED <<convVars, treeVars>>

\* Shortcut().load_dict(sc.to_dict(to_str=True)), in any order of the items
LoadExported ==
  LET exported == Shortcut_to_dict(sc)
  IN  /\ \E names \in Orders(DOMAIN exported.ret) :
           loaded' = IF exported.err # "none"
                       THEN [sc |-> NewShortcut, err |-> exported.err]
                       ELSE Shortcut_load_dict(NewShortcut, exported.ret, names, FALSE)
      /\ call' = [NoCall EXCEPT !.op = "load_dict"]
      /\ UNCHANGED <<sc, convVars, treeVars>>

NextSc == Add \/ LoadExported

SpecSc == Init /\ [][NextSc]_vars

(***************************************************************************)
(* The folder tree over a filesystem that also changes from outside.        *)
(***************************************************************************)
FsPaths == PathsBelow(RootPath, MaxDepth)

Parent(path) == SubSeq(path, 1, Len(path) - 1)

\* something outside the program makes a file or an empty directory
ExternalCreate ==
  /\ nfs < MaxFsChanges
  /\ \E path \in FsPaths, kind \in {"dir", "file"} :
       /\ ~exists(fs, path)
       /\ is_dir(fs, Parent(path))
       /\ fs' = [q \in (DOMAIN fs) \cup {path} |-> IF q = path THEN kind ELSE fs[q]]
  /\ nfs' = nfs + 1
  /\ fcall' = [NoFolderCall EXCEPT !.op = "external"]
  /\ UNCHANGED <<tree, auto_reload, ncalls, convVars, scVars>>

\* something outside the program deletes a file or a directory with all in it
ExternalDelete ==
  /\ nfs < MaxFsChanges
  /\ \E path \in (DOMAIN fs) \ {RootPath} : fs' = Removed(fs, path)
  /\ nfs' = nfs + 1
  /\ fcall' = [NoFolderCall EXCEPT !.op = "external"]
  /\ UNCHANGED <<tree, auto_reload, ncalls, convVars, scVars>>

\* the orders in which os.scandir may list a directory; a call that walks
\* nothing needs none
ScandirOrders == IF auto_reload THEN Orders(FsNames) ELSE {<<>>}

\* node.mkdir(*args) on a node of the tree
Mkdir ==
  /\ ncalls < MaxFolderCalls
  /\ \E pos \in DOMAIN tree :
       \E args \in ArgsUpTo(MaxDepth - Len(pos)), order \in ScandirOrders :
         LET r == Folder_mkdir(fs, tree, pos, args, auto_reload, order)
         IN  /\ fs' = r.fs
             /\ tree' = r.tree
             /\ fcall' = [op |-> "mkdir", pos |-> pos, args |-> args,
                          path |-> join(tree[pos], args),
                          blocked |-> \E q \in Prefixes(join(tree[pos], args)) :
                                        is_file(fs, q),
                          owner |-> tree[pos].pn_object,
                          err |-> r.err, ret |-> NoRet, pre |-> NoPre]
  /\ ncalls' = ncalls + 1
  /\ UNCHANGED <<auto_reload, nfs, convVars, scVars>>

NextTree == ExternalCreate \/ ExternalDelete \/ Mkdir

SpecTree == InitTree /\ [][NextTree]_vars

(***************************************************************************)
(* Filesystems a PathNavigator is constructed on: at most MaxEntries        *)
(* entries below the root directory, none deeper than MaxDepth.             *)
(***************************************************************************)
MaxEntries == 2

\* entry names of the walk: those of FsNames, a name that is its own key, and
\* a name with the prefix that the converter refuses
WalkNames == FsNames \cup {<<"c">>, <<"_", "p", "n", "_">>}

RECURSIVE PathsOver(_, _, _)
PathsOver(names, path, depth) ==
  IF depth = 0
    THEN {}
    ELSE UNION {{Append(path, n)} \cup PathsOver(names, Append(path, n), depth - 1) :
                n \in names}

\* the sets of at most n paths below the root that hold the parent of each
RECURSIVE EntrySets(_, _)
EntrySets(names, n) ==
  IF n = 0
    THEN {{}}
    ELSE LET fewer == EntrySets(names, n - 1)
         IN  fewer \cup
               UNION {{S \cup {q} :
                         q \in {x \in PathsOver(names, RootPath, MaxDepth) :
                                  Parent(x) = RootPath \/ Parent(x) \in S}} :
                      S \in fewer}

Filesystems(names) ==
  UNION {{[q \in S \cup {RootPath} |-> IF q = RootPath THEN "dir" ELSE kind[q]] :
            kind \in {k \in [S -> {"dir", "file"}] :
                        \A x \in S : Parent(x) \in S => k[Parent(x)] = "dir"}} :
         S \in EntrySets(names, MaxEntries)}

\* the tree of PathNavigator(root_dir, load_nested_directories=False)
BareTree == (RootPos :> NewFolder(RootPath[1], <<>>, "root"))

\* the names of the entries of a filesystem, and the orders in which
\* os.scandir may list them; a call that walks nothing needs none
EntryNames(fsys) == {q[Len(q)] : q \in (DOMAIN fsys) \ {RootPath}}

scandir_orders(fsys, walks) == IF walks THEN Orders(EntryNames(fsys)) ELSE {<<>>}

\* the key under which a node stores the child made for a path component
CanonicalKey(name) ==
  IF pn_is_valid_attribute_name(name, invalid_list) = "True" THEN name ELSE valid_name_of(name)

CanonicalKeys(args) == [i \in DOMAIN args |-> CanonicalKey(args[i])]

\* keys a lookup is tried with: the key of the names of FsNames, and one
\* that nothing below the root has
LookupKeys == {CanonicalKey(n) : n \in FsNames} \cup {<<"c">>}

\* shortcut names Folder.set_sc is called with
ScNames == {<<"_", "n">>, <<".", "n">>}

KeyIn(tr, pos, name) == to_valid_name(tr[pos].converter, name, invalid_list).ret

\* what the node at pos holds under the key of name
PreOf(fsys, tr, pos, name) ==
  LET key == KeyIn(tr, pos, name)
  IN  [in_subfolders |-> key \in subfolders(tr, pos),
       in_files      |-> key \in DOMAIN tr[pos].files,
       file          |-> IF key \in DOMAIN tr[pos].files THEN tr[pos].files[key] ELSE <<>>,
       is_file       |-> key \in DOMAIN tr[pos].files /\ is_file(fsys, tr[pos].files[key])]

FolderCall(op, pos, args, err, ret, pre) ==
  [op |-> op, pos |-> pos, args |-> args, path |-> <<>>, blocked |-> FALSE,
   owner |-> IF pos \in DOMAIN tree THEN tree[pos].pn_object ELSE "root",
   err |-> err, ret |-> ret, pre |-> pre]

\* pn.reload()
Reload ==
  /\ ncalls < MaxFolderCalls
  /\ \E order \in scandir_orders(fs, TRUE) :
       /\ tree' = reload(fs, tree, order).tree
       /\ fcall' = FolderCall("reload", RootPos, <<>>, reload(fs, tree, order).err,
                              NoRet, NoPre)
  /\ ncalls' = ncalls + 1
  /\ UNCHANGED <<fs, auto_reload, nfs, convVars, scVars>>

\* node.remove(name)
Remove ==
  /\ ncalls < MaxFolderCalls
  /\ \E pos \in DOMAIN tree, name \in FsNames, order \in scandir_orders(fs, auto_reload) :
       LET r == Folder_remove(fs, tree, pos, name, auto_reload, order)
       IN  /\ fs' = r.fs
           /\ tree' = r.tree
           /\ fcall' = FolderCall("remove", pos, <<name>>, r.err, NoRet,
                                  PreOf(fs, tree, pos, name))
  /\ ncalls' = ncalls + 1
  /\ UNCHANGED <<auto_reload, nfs, convVars, scVars>>

\* getattr(node, key), as in pn.key
Resolve ==
  /\ ncalls < MaxFolderCalls
  /\ \E pos \in DOMAIN tree, key \in LookupKeys :
       LET r == Folder_getattr(tree, pos, key)
       IN  fcall' = FolderCall("getattr", pos, <<key>>,
                               IF r.kind = "AttributeError" THEN r.kind ELSE "none",
                               r, PreOf(fs, tree, pos, key))
  /\ ncalls' = ncalls + 1
  /\ UNCHANGED <<fs, tree, auto_reload, nfs, convVars, scVars>>

\* node.get(fname)
Get ==
  /\ ncalls < MaxFolderCalls
  /\ \E pos \in DOMAIN tree, fname \in FsNames, order \in scandir_orders(fs, auto_reload) :
       LET r == Folder_get_fname(fs, tree, pos, fname, auto_reload, order)
       IN  /\ tree' = r.tree
           /\ fcall' = FolderCall("get", pos, <<fname>>, r.err,
                                  [kind |-> IF r.err = "none" THEN "Path" ELSE "None",
                                   pos |-> <<>>, path |-> r.ret],
                                  PreOf(fs, tree, pos, fname))
  /\ ncalls' = ncalls + 1
  /\ UNCHANGED <<fs, auto_reload, nfs, convVars, scVars>>

\* node.set_sc(name) and node.set_sc(name, filename)
SetSc ==
  /\ ncalls < MaxFolderCalls
  /\ \E pos \in DOMAIN tree, name \in ScNames, given \in BOOLEAN,
        order \in scandir_orders(fs, auto_reload) :
       \E filename \in IF given THEN FsNames ELSE {<<>>} :
         LET r == Folder_set_sc(fs, tree, sc, pos, name, given, filename, auto_reload, order)
         IN  /\ tree' = r.tree
             /\ sc' = r.sc
             /\ fcall' = FolderCall("set_sc", pos,
                                    IF given THEN <<name, filename>> ELSE <<name>>,
                                    r.err, NoRet,
                                    IF given THEN PreOf(fs, tree, pos, filename) ELSE NoPre)
  /\ ncalls' = ncalls + 1
  /\ UNCHANGED <<fs, auto_reload, nfs, convVars, call, loaded>>

\* a PathNavigator that has not walked yet, on any of the filesystems
InitWalk ==
  /\ converter = NewConverter
  /\ log = <<>>
  /\ sc = NewShortcut
  /\ call = NoCall
  /\ loaded = NotLoaded
  /\ fs \in Filesystems(WalkNames)
  /\ tree = BareTree
  /\ auto_reload = FALSE
  /\ fcall = NoFolderCall
  /\ nfs = 0
  /\ ncalls = 0

NextWalk == Reload \/ ExternalDelete

SpecWalk == InitWalk /\ [][NextWalk]_vars

\* entry names of the filesystems a walked PathNavigator starts on: two that
\* rewrite to one key
OpsNames == {<<"a", ".", "b">>, <<"a", "-", "b">>}

\* PathNavigator(root_dir) after the walk of its construction, which counts
\* as the first call, on any of the filesystems over OpsNames
InitOps ==
  /\ converter = NewConverter
  /\ log = <<>>
  /\ sc = NewShortcut
  /\ call = NoCall
  /\ loaded = NotLoaded
  /\ fs \in Filesystems(OpsNames)
  /\ \E order \in scandir_orders(fs, TRUE) : tree = reload(fs, BareTree, order).tree
  /\ auto_reload \in BOOLEAN
  /\ fcall = NoFolderCall
  /\ nfs = 0
  /\ ncalls = 1

NextOps ==
  \/ ExternalCreate
  \/ ExternalDelete
  \/ Remove
  \/ Resolve
  \/ Get
  \/ SetSc

SpecOps == InitOps /\ [][NextOps]_vars

\* the same calls on an empty root directory, where the nodes below the root
\* are those that mkdir made
NextMade ==
  \/ Mkdir
  \/ Remove
  \/ Resolve
  \/ Get
  \/ SetSc

SpecMade == InitTree /\ [][NextMade]_vars

(***************************************************************************)
(* The registry under add, remove and clear.  log keeps the calls.          *)
(***************************************************************************)
\* shortcut names: two that rewrite to the same key, that key, and one that
\* rewrites to a key with the private prefix
RegistryNames ==
  {<<".", "n">>, <<"-", "n">>, <<"_", "n">>, <<".", "p", "n", "_">>}

\* the call as the log keeps it: key is the key the shortcut was stored under
Logged(op, name, path, overwrite, err, key) ==
  [op |-> op, name |-> name, path |-> path, overwrite |-> overwrite, err |-> err,
   key |-> key]

\* sc.add(name, path, overwrite)
ScAdd ==
  /\ Len(log) < MaxCalls
  /\ \E name \in RegistryNames, path \in PathStrings, overwrite \in BOOLEAN :
       LET r == Shortcut_add(sc, name, path, overwrite)
       IN  /\ sc' = r.sc
           /\ call' = [op |-> "add", name |-> name, path |-> path,
                       overwrite |-> overwrite, err |-> r.err]
           /\ log' = Append(log, Logged("add", name, path, overwrite, r.err,
                                        get_valid(r.sc.pn_converter.conv, name)))
  /\ UNCHANGED <<converter, loaded, treeVars>>

\* sc.remove(name)
ScRemove ==
  /\ Len(log) < MaxCalls
  /\ \E name \in RegistryNames :
       LET r == Shortcut_remove(sc, name)
       IN  /\ sc' = r.sc
           /\ call' = [NoCall EXCEPT !.op = "remove", !.name = name, !.err = r.err]
           /\ log' = Append(log, Logged("remove", name, <<>>, FALSE, r.err, <<>>))
  /\ UNCHANGED <<converter, loaded, treeVars>>

\* sc.clear()
ScClear ==
  /\ Len(log) < MaxCalls
  /\ LET r == Shortcut_clear(sc)
     IN  /\ sc' = r.sc
         /\ call' = [NoCall EXCEPT !.op = "clear", !.err = r.err]
         /\ log' = Append(log, Logged("clear", <<>>, <<>>, FALSE, r.err, <<>>))
  /\ UNCHANGED <<converter, loaded, treeVars>>

NextReg == ScAdd \/ ScRemove \/ ScClear

SpecReg == Init /\ [][NextReg]_vars

(***************************************************************************)
(* Construction: PathNavigator(root_dir) and the factory create.            *)
(***************************************************************************)
\* the parameters of PathNavigator.__init__
init_parameters == {"root_dir", "load_nested_directories"}

\* the keyword arguments create passes to PathNavigator
create_keywords ==
  {"root_dir", "max_depth", "max_files", "max_folders", "include", "exclude", "display"}

\* PathNavigator(**keywords): a keyword that is no parameter is a TypeError
\* of the call, before __init__ runs; otherwise the walk from the root
PathNavigator_init(fsys, keywords, order) ==
  IF ~(keywords \subseteq init_parameters)
    THEN [tree |-> BareTree, err |-> "TypeError"]
    ELSE reload(fsys, BareTree, order)

\* create(root_dir, max_depth, max_files, max_folders)
create(fsys, max_depth, max_files, max_folders, order) ==
  PathNavigator_init(fsys, create_keywords, order)

\* pn = create('/r', max_depth, max_files, max_folders)
Create ==
  /\ ncalls = 0
  /\ \E max_depth \in 0..MaxDepth, max_files \in 0..MaxEntries,
        max_folders \in 0..MaxEntries, order \in scandir_orders(fs, TRUE) :
       LET r == create(fs, max_depth, max_files, max_folders, order)
       IN  /\ tree' = r.tree
           /\ fcall' = FolderCall("create", RootPos,
                                  <<max_depth, max_files, max_folders>>, r.err,
                                  NoRet, NoPre)
  /\ ncalls' = ncalls + 1
  /\ UNCHANGED <<fs, auto_reload, nfs, convVars, scVars>>

\* pn = PathNavigator('/r')
Construct ==
  /\ ncalls = 0
  /\ \E order \in scandir_orders(fs, TRUE) :
       LET r == PathNavigator_init(fs, {"root_dir"}, order)
       IN  /\ tree' = r.tree
           /\ fcall' = FolderCall("PathNavigator", RootPos, <<>>, r.err, NoRet, NoPre)
  /\ ncalls' = ncalls + 1
  /\ UNCHANGED <<fs, auto_reload, nfs, convVars, scVars>>

NextCreate == Create \/ Construct

SpecCreate == InitWalk /\ [][NextCreate]_vars

(***************************************************************************)
(* The registry filled from a directory.                                    *)
(***************************************************************************)
\* the arguments of add_all: the modes, two prefixes, and patterns that
\* match some of the names of WalkNames
Modes == {"all", "files", "folders"}

NamePrefixes == {<<>>, <<"p">>}

IncludePatterns == {<<>>, <<"a">>, <<"c">>}

ExcludePatterns == {<<>>, <<"a">>, <<"-">>}

\* a registry that is new, or holds the shortcut 'pa.b' already
InitAll ==
  /\ converter = NewConverter
  /\ log = <<>>
  /\ sc \in {NewShortcut,
              Shortcut_add(NewShortcut, <<"p", "a", ".", "b">>, <<"r", "x">>, FALSE).sc}
  /\ call = NoCall
  /\ loaded = NotLoaded
  /\ fs \in Filesystems(WalkNames)
  /\ tree = BareTree
  /\ auto_reload = FALSE
  /\ fcall = NoFolderCall
  /\ nfs = 0
  /\ ncalls = 0

\* sc.add_all(directory, mode, overwrite, prefix, include, exclude), once
AddAll ==
  /\ ncalls = 0
  /\ \E directory \in DOMAIN fs, mode \in Modes, overwrite \in BOOLEAN,
        prefix \in NamePrefixes, include \in IncludePatterns, exclude \in ExcludePatterns,
        names \in Orders(EntryNames(fs)) :
       LET r == Shortcut_add_all(fs, sc, directory, mode, overwrite, prefix,
                                 include, exclude, names)
       IN  /\ sc' = r.sc
           /\ call' = [op |-> "add_all", name |-> prefix, path |-> directory,
                       overwrite |-> overwrite, err |-> r.err, mode |-> mode,
                       include |-> include, exclude |-> exclude]
  /\ ncalls' = ncalls + 1
  /\ UNCHANGED <<loaded, fs, tree, auto_reload, fcall, nfs, convVars>>

NextAll == AddAll

SpecAll == InitAll /\ [][NextAll]_vars

(***************************************************************************)
(* Claims about the converter.                                              *)
(***************************************************************************)
Entries == {log[i] : i \in 1..Len(log)}

\* the call returned a key
Accepted(e) == e.err = "none"

\* the call took the rewriting branch and stored its pair in both dicts
Rewrote(e) == pn_is_valid_attribute_name(e.name, invalid_list) = "False"

LegalPlainIdentifier(name) ==
  isidentifier(name) /\ ~iskeyword(name) /\ name \notin invalid_list

\* call j stored another original name under the key call i returned
Overwrites(j, i) ==
  /\ log[j].name # log[i].name
  /\ Rewrote(log[j])
  /\ log[j].ret = log[i].ret

NoOverwriteAfter(i) == \A j \in (i + 1)..Len(log) : ~Overwrites(j, i)

NoOverwriteBefore(i) == \A j \in 1..(i - 1) : ~Overwrites(j, i)

RoundTrips(i) == get(converter, log[i].ret) = log[i].name

\* C1 as stated: for every name s that to_valid_name accepted,
\* get(to_valid_name(s)) = s, provided no other original name has overwritten
\* that key after s was converted.
C1_RoundTripUnlessOverwrittenAfter ==
  \A i \in 1..Len(log) :
    (Accepted(log[i]) /\ NoOverwriteAfter(i)) => RoundTrips(i)

\* C1 amended: the round trip holds provided no other original name has
\* overwritten the key after s was converted and, when s was already valid
\* (returned unchanged, never stored), none was rewritten to s before either.
C1_RoundTrip ==
  \A i \in 1..Len(log) :
    (/\ Accepted(log[i])
     /\ NoOverwriteAfter(i)
     /\ (~Rewrote(log[i]) => NoOverwriteBefore(i))) => RoundTrips(i)

\* a rewritten name is mapped back after later calls on other names
C1_Witness ==
  \E i \in 1..Len(log) :
    /\ i < Len(log)
    /\ Accepted(log[i]) /\ Rewrote(log[i]) /\ log[i].ret # log[i].name
    /\ \E j \in 1..(i - 1) : Overwrites(j, i)
    /\ NoOverwriteAfter(i)
    /\ RoundTrips(i)

\* C2 as stated: every legal identifier that is no keyword and no reserved
\* method name is returned unchanged by to_valid_name.
C2_LegalIdentifierUnchanged ==
  \A e \in Entries :
    LegalPlainIdentifier(e.name) => (Accepted(e) /\ e.ret = e.name)

\* C2 amended: every legal identifier that is no keyword, no reserved method
\* name and does not begin with '_pn_' is returned unchanged by to_valid_name.
C2_ValidNameUnchanged ==
  \A e \in Entries :
    (LegalPlainIdentifier(e.name) /\ ~startswith(e.name, PrivatePrefix))
      => (Accepted(e) /\ e.ret = e.name)

\* an identifier of more than one character came back unchanged
C2_Witness ==
  \E e \in Entries :
    /\ LegalPlainIdentifier(e.name) /\ ~startswith(e.name, PrivatePrefix)
    /\ Len(e.name) > 1
    /\ Accepted(e) /\ e.ret = e.name

\* C3: every key to_valid_name returns is a valid identifier, no keyword, no
\* reserved method name, and does not begin with '_pn_'.
C3_ReturnedKeyIsWellFormed ==
  \A e \in Entries :
    Accepted(e) =>
      /\ isidentifier(e.ret)
      /\ ~iskeyword(e.ret)
      /\ e.ret \notin invalid_list
      /\ ~startswith(e.ret, PrivatePrefix)

\* C4: the two dicts are inverses of each other in every reachable state.
C4_MapsAreInverses ==
  /\ \A o \in DOMAIN converter.org_to_valid_name :
       LET c == converter.org_to_valid_name[o]
       IN  c \in DOMAIN converter.valid_name_to_org /\ converter.valid_name_to_org[c] = o
  /\ \A c \in DOMAIN converter.valid_name_to_org :
       LET o == converter.valid_name_to_org[c]
       IN  o \in DOMAIN converter.org_to_valid_name /\ converter.org_to_valid_name[o] = c

\* C5: a call with a name that begins with '_pn_' raises ValueError, returns
\* no key and leaves both dicts as they were; the validity check itself
\* raises on such a name.
C5_PrivatePrefixRejected ==
  [][LET e == log'[Len(log')]
     IN  (Len(log') = Len(log) + 1 /\ startswith(e.name, PrivatePrefix)) =>
           /\ e.err = "ValueError"
           /\ e.ret = <<>>
           /\ converter' = converter
           /\ pn_is_valid_attribute_name(e.name, invalid_list) = "ValueError"]_vars

\* a '_pn_' name was rejected by a converter that already holds a mapping
C5_Witness ==
  /\ Len(log) > 1
  /\ startswith(log[Len(log)].name, PrivatePrefix)
  /\ log[Len(log)].err = "ValueError"
  /\ DOMAIN converter.valid_name_to_org # {}

\* the characters of name, each kept when \w matches it and else '_'
SwappedAt(name, i) == IF IsWordChar(name[i]) THEN name[i] ELSE "_"

Swapped(name) == [i \in 1..Len(name) |-> SwappedAt(name, i)]

\* the rewrite as C6 states it
C6_StatedRewrite(name) ==
  LET led == IF Len(name) > 0 /\ name[1] \in Digits
               THEN <<"_">> \o Swapped(name)
               ELSE Swapped(name)
  IN  IF iskeyword(led) \/ led \in invalid_list THEN Append(led, "_") ELSE led

\* C6 as stated: a name that is not already valid is rewritten by replacing
\* every character that is no letter, digit or underscore by '_', adding a
\* leading '_' when and only when the name starts with a digit, and
\* appending '_' when the result collides with a reserved word.
C6_RewriteAsStated ==
  \A e \in Entries :
    (Accepted(e) /\ Rewrote(e)) => e.ret = C6_StatedRewrite(e.name)

\* key is name with each non-word character replaced by '_' and a '_' put in
\* front exactly when that does not already begin with '_'
LedBySwapped(key, name) ==
  LET added == Len(key) - Len(name)
  IN  /\ added \in {0, 1}
      /\ Len(key) > 0 /\ key[1] = "_"
      /\ \A i \in 1..Len(name) : key[i + added] = SwappedAt(name, i)
      /\ added = 0 <=> (Len(name) > 0 /\ SwappedAt(name, 1) = "_")

\* C6 amended: a name that is not already valid is rewritten by replacing
\* every character that \w does not match by '_', adding a leading '_'
\* whenever the result does not already begin with '_' (so also when the name
\* starts with a digit), and appending '_' only when that is a keyword.
C6_Rewrite ==
  \A e \in Entries :
    (Accepted(e) /\ Rewrote(e)) =>
      \/ LedBySwapped(e.ret, e.name) /\ ~iskeyword(e.ret)
      \/ /\ Len(e.ret) > 1 /\ e.ret[Len(e.ret)] = "_"
         /\ LedBySwapped(SubSeq(e.ret, 1, Len(e.ret) - 1), e.name)
         /\ iskeyword(SubSeq(e.ret, 1, Len(e.ret) - 1))

\* a name that starts with a letter and holds a non-word character was
\* rewritten with a leading '_'
C6_Witness ==
  \E e \in Entries :
    /\ Accepted(e) /\ Rewrote(e)
    /\ Len(e.name) > 1 /\ e.name[1] \in Letters
    /\ \E i \in 1..Len(e.name) : ~IsWordChar(e.name[i])
    /\ Len(e.ret) = Len(e.name) + 1

(***************************************************************************)
(* Claims about the shortcut registry.                                      *)
(***************************************************************************)
AddReturned == call.op = "add" /\ call.err = "none"

GetReturns(s, name, path) ==
  Shortcut_get(s, name).err = "none" /\ Shortcut_get(s, name).ret = path

\* C7: after add(name, path, overwrite) has returned, get(name) with the same
\* name returns the path, also for a name that had to be rewritten and, with
\* overwrite, when an entry already existed under the name.
C7_GetAfterAdd ==
  AddReturned => GetReturns(sc, call.name, Path(call.path))

\* the same for every name but the one that rewrites to '_pn_converter'
C7_GetAfterAddOfOtherNames ==
  (AddReturned /\ valid_name_of(call.name) # PnConverterName)
    => GetReturns(sc, call.name, Path(call.path))

\* the keys something is registered under
Registered(s) ==
  (DOMAIN s.dict) \cup (IF HasConverter(s) THEN {} ELSE {PnConverterName})

\* the key add would register name under, when the converter accepts it
KeyOf(name) == IF to_valid_name(NewConverter, name, sc_invalid_name_list).err = "none"
                 THEN {to_valid_name(NewConverter, name, sc_invalid_name_list).ret}
                 ELSE {}

\* C8: add(name, path) without overwrite, when an entry is registered under
\* the canonical key of name, raises the collision error (AttributeError) and
\* leaves every registered (key, path) pair as it was.
C8_AddCollides ==
  [][(/\ call'.op = "add"
      /\ ~call'.overwrite
      /\ KeyOf(call'.name) \cap Registered(sc) # {})
       => (/\ call'.err = "AttributeError"
           /\ sc'.dict = sc.dict
           /\ Registered(sc') = Registered(sc)
           /\ sc'.pn_converter.value = sc.pn_converter.value)]_vars

\* an add without overwrite was refused for a rewritten name whose key was
\* taken by another path, which is still there
C8_Witness ==
  /\ call.op = "add" /\ ~call.overwrite /\ call.err = "AttributeError"
  /\ HasConverter(sc)
  /\ call.name \notin KeyOf(call.name)
  /\ \E k \in KeyOf(call.name) : k \in DOMAIN sc.dict /\ sc.dict[k] # Path(call.path)

\* C9: for every registry that add calls can build, load_dict of its to_dict
\* into an empty registry succeeds, and the to_dict of that registry is the
\* same set of (original name, path string) pairs.
C9_ExportImportRoundTrip ==
  call.op = "load_dict" =>
    /\ Shortcut_to_dict(sc).err = "none"
    /\ loaded.err = "none"
    /\ Shortcut_to_dict(loaded.sc).err = "none"
    /\ Shortcut_to_dict(loaded.sc).ret = Shortcut_to_dict(sc).ret

\* the same for a registry that still has its converter and holds no name
\* whose rewritten form is not an identifier
C9_RoundTripOfIdentifierKeys ==
  (/\ call.op = "load_dict"
   /\ HasConverter(sc)
   /\ \A k \in DOMAIN sc.dict : isidentifier(k))
    => /\ Shortcut_to_dict(sc).err = "none"
       /\ loaded.err = "none"
       /\ Shortcut_to_dict(loaded.sc).err = "none"
       /\ Shortcut_to_dict(loaded.sc).ret = Shortcut_to_dict(sc).ret

\* to_dict never folds two keys into one original name
ExportedNamesDistinct ==
  HasConverter(sc) =>
    \A k1, k2 \in ExportedKeys(sc) :
      get_org(sc.pn_converter.conv, k1) = get_org(sc.pn_converter.conv, k2) => k1 = k2

(***************************************************************************)
(* Claims about the folder tree.                                            *)
(***************************************************************************)
\* node.k1.k2. ... .kn yields a Folder at every step
RECURSIVE ResolvesToFolders(_, _, _)
ResolvesToFolders(tr, pos, keys) ==
  \/ keys = <<>>
  \/ /\ pos \in DOMAIN tr
     /\ Folder_getattr(tr, pos, Head(keys)).kind = "Folder"
     /\ ResolvesToFolders(tr, Folder_getattr(tr, pos, Head(keys)).pos, Tail(keys))

MkdirPostcondition ==
  /\ ResolvesToFolders(tree, fcall.pos, CanonicalKeys(fcall.args))
  /\ is_dir(fs, fcall.path)

\* C10: mkdir(c1, ..., cn) on any node, in any filesystem state, raises
\* nothing, and afterwards the canonical keys of c1, ..., cn resolve from that
\* node to a Folder one after the other and node_path/c1/.../cn is a directory.
C10_MkdirMakesFoldersAndDirectory ==
  fcall.op = "mkdir" => (fcall.err = "none" /\ MkdirPostcondition)

\* the same on a node the walk made, with no file on the way to the target
\* and nothing walked again afterwards
C10_MkdirOnWalkedNode ==
  (fcall.op = "mkdir" /\ fcall.owner = "root" /\ ~fcall.blocked /\ ~auto_reload)
    => (fcall.err = "none" /\ MkdirPostcondition)

\* the call ended in the exception of the missing owner, its work done
C10_RaisedOnMadeNode ==
  fcall.op = "mkdir" /\ fcall.owner = "None" /\ fcall.err = "AttributeError"
    /\ MkdirPostcondition

\* the call raised nothing and left a Folder for a path that is a file
C10_FolderForFile ==
  fcall.op = "mkdir" /\ fcall.err = "none" /\ is_file(fs, fcall.path)
    /\ ResolvesToFolders(tree, fcall.pos, CanonicalKeys(fcall.args))

\* the call was node.remove(key) with a key as the node stores it
RemovedKey == fcall.op = "remove" /\ CanonicalKey(fcall.args[1]) = fcall.args[1]

\* getattr(node, key) after a reload, whatever the order of the scan
NotFoundAfterReload(pos, key) ==
  \A order \in scandir_orders(fs, TRUE) :
    /\ pos \in DOMAIN reload(fs, tree, order).tree
    /\ Folder_getattr(reload(fs, tree, order).tree, pos, key).kind = "AttributeError"

RemovePostcondition ==
  /\ ~exists(fs, fcall.pre.file)
  /\ fcall.pos \in DOMAIN tree
  /\ fcall.args[1] \notin DOMAIN tree[fcall.pos].files
  /\ NotFoundAfterReload(fcall.pos, fcall.args[1])

\* C11: after remove(key) on a key that the node tracks as a file, the file
\* that was tracked is not on the filesystem, the key is not in the node's
\* files, and getattr(node, key) after a reload finds nothing.
C11_RemoveTrackedFile ==
  (RemovedKey /\ fcall.pre.in_files) => RemovePostcondition

\* the directory of the node holds an entry of this key other than path
OtherEntryOfKey(pos, key, path) ==
  \E q \in DOMAIN fs :
    /\ q # path
    /\ Len(q) = Len(path)
    /\ Parent(q) = Parent(path)
    /\ CanonicalKey(q[Len(q)]) = key

\* the same where the key is that of a file alone: the file is there, the
\* key names no subfolder, and no other entry of the directory has the key
C11_RemoveFileOfItsOwnKey ==
  (/\ RemovedKey
   /\ fcall.pre.in_files
   /\ fcall.pre.is_file
   /\ ~fcall.pre.in_subfolders
   /\ ~OtherEntryOfKey(fcall.pos, fcall.args[1], fcall.pre.file))
    => (fcall.err = "none" /\ RemovePostcondition)

\* remove(key) took the subfolder branch for a key that tracks a file too,
\* and the file is still there
C11_FileLeftBehind ==
  /\ RemovedKey
  /\ fcall.pre.in_files
  /\ fcall.pre.in_subfolders
  /\ is_file(fs, fcall.pre.file)

\* a step of node.remove(name) for a name whose key the node does not track
RemoveOfUntracked ==
  /\ ncalls' = ncalls + 1
  /\ fcall'.op = "remove"
  /\ ~fcall'.pre.in_files
  /\ ~fcall'.pre.in_subfolders

\* the node of the call holds after the step every key it held before
NodeKeepsItsKeys ==
  fcall'.pos \in DOMAIN tree' =>
    /\ subfolders(tree, fcall'.pos) \subseteq subfolders(tree', fcall'.pos)
    /\ \A k \in DOMAIN tree[fcall'.pos].files :
         /\ k \in DOMAIN tree'[fcall'.pos].files
         /\ auto_reload \/ tree'[fcall'.pos].files[k] = tree[fcall'.pos].files[k]

\* C12: remove(key) with a key that names neither a subfolder nor a file of
\* the node raises nothing, leaves the filesystem as it is and takes nothing
\* out of the node's subfolders and files.
C12_RemoveUntrackedIsNoOp ==
  [][RemoveOfUntracked => (fcall'.err = "none" /\ fs' = fs /\ NodeKeepsItsKeys)]_vars

\* the same on a node that the walk made
C12_RemoveUntrackedOnWalkedNode ==
  [][(RemoveOfUntracked /\ fcall'.owner = "root")
       => (fcall'.err = "none" /\ fs' = fs /\ NodeKeepsItsKeys)]_vars

\* the call on a node that mkdir made ended in the exception of the missing
\* owner
C12_RaisedOnMadeNode ==
  /\ fcall.op = "remove"
  /\ ~fcall.pre.in_files
  /\ ~fcall.pre.in_subfolders
  /\ fcall.owner = "None"
  /\ fcall.err = "AttributeError"

\* the last component of a path
Basename(path) == path[Len(path)]

\* Folder.ls() on the node at pos reports the subfolder of key k under the
\* name of its directory, and the file of key k under the name of its path,
\* with the key whenever it differs from the name
ListsSubfolder(pos, k) ==
  [name |-> tree[Append(pos, k)].name, key |-> k, arrow |-> tree[Append(pos, k)].name # k]
    \in Folder_ls(tree, pos).dirs

ListsFile(pos, k) ==
  [name  |-> Basename(tree[pos].files[k]), key |-> k,
   arrow |-> Basename(tree[pos].files[k]) # k]
    \in Folder_ls(tree, pos).files

\* the node at pos is that of a directory with a file 'a.b' and a folder 'a-b'
HoldsFileAndFolderOfOneKey(pos) ==
  /\ is_file(fs, Append(Folder_get(tree[pos]), <<"a", ".", "b">>))
  /\ is_dir(fs, Append(Folder_get(tree[pos]), <<"a", "-", "b">>))

\* C13: after the walk, a node whose directory holds a file 'a.b' and a
\* folder 'a-b' has a key for the file and another key for the folder, and
\* ls() reports 'a.b' with the first and 'a-b' with the second.
C13_FileAndFolderGetTwoKeys ==
  (fcall.op = "reload" /\ fcall.err = "none") =>
    \A pos \in DOMAIN tree :
      HoldsFileAndFolderOfOneKey(pos) =>
        \E kf \in DOMAIN tree[pos].files, kd \in subfolders(tree, pos) :
          /\ kf # kd
          /\ Basename(tree[pos].files[kf]) = <<"a", ".", "b">>
          /\ tree[Append(pos, kd)].name = <<"a", "-", "b">>
          /\ ListsFile(pos, kf)
          /\ ListsSubfolder(pos, kd)

\* the walk went over such a directory
C13_WalkedFileAndFolder ==
  /\ fcall.op = "reload"
  /\ fcall.err = "none"
  /\ \E pos \in DOMAIN tree : HoldsFileAndFolderOfOneKey(pos)

\* C14: no key is in the subfolders and in the files of one node.
C14_KeyInOneMapOnly ==
  \A pos \in DOMAIN tree : subfolders(tree, pos) \cap DOMAIN tree[pos].files = {}

\* the directory of the node at pos holds an entry whose key is key
EntryOfKey(pos, key) ==
  \E q \in DOMAIN fs :
    /\ Len(q) > 1
    /\ Parent(q) = Folder_get(tree[pos])
    /\ CanonicalKey(Basename(q)) = key

\* getattr answers from subfolders first, then from files, then not at all
LooksUpInOrder ==
  fcall.op = "getattr" =>
    fcall.ret.kind = (IF fcall.pre.in_subfolders THEN "Folder"
                      ELSE IF fcall.pre.in_files THEN "file"
                      ELSE "AttributeError")

\* C15: getattr(node, key) gives the subfolder if the key is in subfolders,
\* else the path if it is in files, else nothing; and with the reload flag on
\* it finds an entry that the directory of the node holds.
C15_ResolveReloadsFirst ==
  /\ LooksUpInOrder
  /\ (fcall.op = "getattr" /\ auto_reload /\ EntryOfKey(fcall.pos, fcall.args[1]))
       => fcall.ret.kind # "AttributeError"

\* C15, first part alone
C15_ResolveLooksUpInOrder == LooksUpInOrder

\* the part was exercised on a key in both maps
C15_LookedUpKeyOfBoth ==
  fcall.op = "getattr" /\ fcall.pre.in_subfolders /\ fcall.pre.in_files

\* the key of the call is tracked by the node after the call
TrackedAfter ==
  /\ fcall.pos \in DOMAIN tree
  /\ CanonicalKey(fcall.args[1]) \in
       subfolders(tree, fcall.pos) \cup DOMAIN tree[fcall.pos].files

\* C16: get(fname) returns parent_path/name/fname, tracked or not; it fails
\* only with the reload flag on and the entry untracked before and after the
\* reload.
C16_GetReturnsPathUnlessReloadFails ==
  fcall.op = "get" =>
    IF fcall.err = "none"
      THEN fcall.ret.path = Append(Folder_get(tree[fcall.pos]), fcall.args[1])
      ELSE /\ auto_reload
           /\ ~fcall.pre.in_files
           /\ ~fcall.pre.in_subfolders
           /\ ~TrackedAfter

\* get(fname) of a tracked entry returns the path
C16_GetOfTracked ==
  (fcall.op = "get" /\ (fcall.pre.in_files \/ fcall.pre.in_subfolders)) =>
    /\ fcall.err = "none"
    /\ fcall.ret.path = Append(Folder_get(tree[fcall.pos]), fcall.args[1])

\* get(fname) raised with the reload flag off
C16_RaisedWithoutReload ==
  fcall.op = "get" /\ ~auto_reload /\ fcall.err = "ValueError"

\* a step of node.set_sc with a shortcut name that the registry has no key for
SetScOfNewName ==
  /\ ncalls' = ncalls + 1
  /\ fcall'.op = "set_sc"
  /\ to_valid_name(sc.pn_converter.conv, fcall'.args[1], sc_invalid_name_list).ret
       \notin DOMAIN sc.dict

\* the step raised nothing and the registry answers path for the name
RegisteredBy(path) ==
  /\ fcall'.err = "none"
  /\ Shortcut_get(sc', fcall'.args[1]) = [err |-> "none", ret |-> fspath(path)]

\* the node of the call tracks the file of the call after the step
FileTrackedAfter ==
  /\ fcall'.pos \in DOMAIN tree'
  /\ CanonicalKey(fcall'.args[2]) \in DOMAIN tree'[fcall'.pos].files

SetScRegisters ==
  IF Len(fcall'.args) = 1
    THEN RegisteredBy(Folder_get(tree[fcall'.pos]))
    ELSE IF fcall'.pre.in_files
      THEN RegisteredBy(fcall'.pre.file)
      ELSE IF FileTrackedAfter
        THEN RegisteredBy(tree'[fcall'.pos].files[CanonicalKey(fcall'.args[2])])
        ELSE fcall'.err # "none" /\ sc' = sc

\* C17: set_sc(name) registers the path of the node under name; set_sc(name,
\* filename) registers the path that files holds for the file; when the file is
\* not tracked, not after the reload attempt either, the call fails and the
\* registry is as before.
C17_SetScRegistersOrFails ==
  [][SetScOfNewName => SetScRegisters]_vars

\* the same on a node that the walk made, with the reload flag off
C17_SetScOnWalkedNode ==
  [][(SetScOfNewName /\ fcall'.owner = "root" /\ ~auto_reload) => SetScRegisters]_vars

\* set_sc(name) on a node that mkdir made ended in the exception of the
\* missing owner
C17_RaisedOnMadeNode ==
  fcall.op = "set_sc" /\ fcall.owner = "None" /\ fcall.err = "AttributeError"

\* set_sc registered the path of a tracked file
C17_RegisteredFile ==
  /\ fcall.op = "set_sc"
  /\ fcall.pre.in_files
  /\ fcall.err = "none"
  /\ Shortcut_get(sc, fcall.args[1]) = [err |-> "none", ret |-> fspath(fcall.pre.file)]

\* C18: ls() on every node reports every subfolder and every file under the
\* name it has on the filesystem, with its key whenever the key differs.
C18_LsReportsOriginalNames ==
  \A pos \in DOMAIN tree :
    /\ Folder_ls(tree, pos).err = "none"
    /\ \A k \in subfolders(tree, pos) : ListsSubfolder(pos, k)
    /\ \A k \in DOMAIN tree[pos].files : ListsFile(pos, k)

\* the same on the root alone, after the first walk over a filesystem no two
\* entries of which, at any depth, share a key
C18_LsOfRootWithoutSharedKeys ==
  (\A q1, q2 \in DOMAIN fs \ {RootPath} :
     CanonicalKey(Basename(q1)) = CanonicalKey(Basename(q2)) => q1 = q2)
    => ((fcall.op = "reload" /\ fcall.err = "none" /\ ncalls = 1) =>
         /\ Folder_ls(tree, RootPos).err = "none"
         /\ \A k \in subfolders(tree, RootPos) : ListsSubfolder(RootPos, k)
         /\ \A k \in DOMAIN tree[RootPos].files : ListsFile(RootPos, k))

\* a node below the root holds an entry whose name is not its key
C18_RenamedEntryBelowRoot ==
  \E pos \in DOMAIN tree :
    /\ pos # RootPos
    /\ \E k \in DOMAIN tree[pos].files : Basename(tree[pos].files[k]) # k

\* a step of pn.reload()
ReloadStep == ncalls' = ncalls + 1 /\ fcall'.op = "reload"

\* the position of the tree at which the walk puts the entry of a path
PosOf(path) == CanonicalKeys(Tail(path))

\* the positions of the directories, and of all entries, the filesystem holds
\* below the root
DirPositions(fsys) == {PosOf(q) : q \in {x \in (DOMAIN fsys) \ {RootPath} : is_dir(fsys, x)}}

EntryPositions(fsys) == {PosOf(q) : q \in (DOMAIN fsys) \ {RootPath}}

\* the node at pos, or one above it other than the root, is that of a
\* directory the filesystem holds
UnderFoundDirectory(fsys, pos) ==
  \E n \in 1..Len(pos) : SubSeq(pos, 1, n) \in DirPositions(fsys)

ReloadedAfterDelete ==
  /\ fcall.op = "reload"
  /\ fcall.err = "none"
  /\ ncalls = 2
  /\ nfs = 1

NoSharedKeyInOneDirectory(fsys) ==
  \A q1, q2 \in (DOMAIN fsys) \ {RootPath} :
    (Parent(q1) = Parent(q2) /\ CanonicalKey(Basename(q1)) = CanonicalKey(Basename(q2)))
      => q1 = q2

\* no entry has a name that begins with '_pn_'
NoPrivateName(fsys) ==
  \A q \in (DOMAIN fsys) \ {RootPath} : ~startswith(Basename(q), PrivatePrefix)

\* the state right after the first walk, which started from the bare root
AfterFirstWalk == fcall.op = "reload" /\ ncalls = 1

\* the walk raised nothing and the tree holds the entries of the filesystem,
\* each under the keys of its path, and nothing else
TreeMirrors(fsys) ==
  /\ fcall.err = "none"
  /\ DOMAIN tree = {RootPos} \cup DirPositions(fsys)
  /\ \A q \in (DOMAIN fsys) \ {RootPath} :
       IF is_dir(fsys, q)
         THEN /\ tree[PosOf(q)].name = Basename(q)
              /\ tree[PosOf(q)].parent_path = Parent(q)
         ELSE /\ CanonicalKey(Basename(q)) \in DOMAIN tree[PosOf(Parent(q))].files
              /\ tree[PosOf(Parent(q))].files[CanonicalKey(Basename(q))] = q
  /\ \A pos \in DOMAIN tree : \A k \in DOMAIN tree[pos].files :
       /\ is_file(fsys, tree[pos].files[k])
       /\ PosOf(tree[pos].files[k]) = Append(pos, k)

\* as the claim states it: the first walk over a filesystem no directory of
\* which holds two entries of one key makes the tree of that filesystem
C20_WalkBuildsTheTree ==
  (AfterFirstWalk /\ NoSharedKeyInOneDirectory(fs)) => TreeMirrors(fs)

\* C20: after the first walk from the root directory over a filesystem in
\* which no two entries of one directory share a key and no entry has a name
\* beginning with '_pn_', every directory has a node under the keys of its
\* path, every file has an entry of its key and path in the files of its
\* parent's node, and the tree holds nothing else.
C20_WalkBuildsTheTreeOfAcceptedNames ==
  (AfterFirstWalk /\ NoSharedKeyInOneDirectory(fs) /\ NoPrivateName(fs)) => TreeMirrors(fs)

\* the walk has built the tree of a directory that holds a renamed file in a
\* subfolder
C20_WalkedTwoLevels ==
  /\ AfterFirstWalk
  /\ NoSharedKeyInOneDirectory(fs)
  /\ NoPrivateName(fs)
  /\ \E q \in DOMAIN fs :
       Len(q) = 3 /\ is_file(fs, q) /\ CanonicalKey(Basename(q)) # Basename(q)

\* the walk met a name that begins with '_pn_'
C20_WalkRefusedPrivateName ==
  AfterFirstWalk /\ NoSharedKeyInOneDirectory(fs) /\ fcall.err = "ValueError"

(***************************************************************************)
(* Claims about add_all.                                                    *)
(***************************************************************************)
\* a step of sc.add_all on a directory
AddAllStep == ncalls' = ncalls + 1 /\ call'.op = "add_all" /\ is_dir(fs, call'.path)

\* the children of the directory that the patterns and the mode let through
Survivors ==
  {n \in EntryNames(fs) :
     /\ exists(fs, Append(call'.path, n))
     /\ ~(call'.exclude # <<>> /\ re_search(call'.exclude, n))
     /\ (call'.include # <<>> => re_search(call'.include, n))
     /\ CASE call'.mode = "files"   -> is_file(fs, Append(call'.path, n))
          [] call'.mode = "folders" -> is_dir(fs, Append(call'.path, n))
          [] OTHER                  -> TRUE}

\* the key of a shortcut name
ScKey(name) ==
  IF pn_is_valid_attribute_name(name, sc_invalid_name_list) = "True"
    THEN name ELSE valid_name_of(name)

\* every survivor is registered under prefix + name with its path, and
\* nothing else of the registry has changed
RegistersSurvivors ==
  /\ call'.err = "none"
  /\ \A n \in Survivors :
       Shortcut_get(sc', call'.name \o n)
         = [err |-> "none", ret |-> fspath(Append(call'.path, n))]
  /\ \A k \in (DOMAIN sc'.dict) \cup (DOMAIN sc.dict) :
       k \notin {ScKey(call'.name \o n) : n \in Survivors}
         => (k \in DOMAIN sc.dict /\ k \in DOMAIN sc'.dict /\ sc'.dict[k] = sc.dict[k])

\* C21: add_all(dir, mode, overwrite, prefix, include, exclude) registers
\* every child of dir that exclude does not match, that include matches when
\* given, and that the mode takes, under prefix + name with the path of the
\* child, and adds or changes no other entry.
C21_AddAllRegistersSurvivors ==
  [][AddAllStep => RegistersSurvivors]_vars

\* the same when the shortcut names of the survivors are accepted, have keys
\* of their own, and none of the keys is in the registry yet
C21_AddAllOfNewKeys ==
  [][(/\ AddAllStep
      /\ \A n \in Survivors :
           /\ ~startswith(call'.name \o n, PrivatePrefix)
           /\ ScKey(call'.name \o n) \notin DOMAIN sc.dict
           /\ \A m \in Survivors :
                ScKey(call'.name \o m) = ScKey(call'.name \o n) => m = n)
       => RegistersSurvivors]_vars

\* add_all stopped at a child whose key the registry held already
C21_StoppedAtTakenKey ==
  /\ call.op = "add_all"
  /\ call.err = "AttributeError"
  /\ call.mode = "files"
  /\ DOMAIN sc.dict # {}

\* add_all registered two children of a directory
C21_RegisteredTwo ==
  /\ call.op = "add_all"
  /\ call.err = "none"
  /\ call.exclude # <<>>
  /\ Cardinality(DOMAIN sc.dict) >= 2

(***************************************************************************)
(* Claims about the paths and the owners of the nodes.                      *)
(***************************************************************************)
\* C22: in every reachable state every node below the root hangs under a
\* node of the tree, and its parent_path is the full path, parent_path / name,
\* of that node, whether the walk, a reload or mkdir made it.
C22_ChildPathsFollowHolder ==
  \A pos \in (DOMAIN tree) \ {RootPos} :
    /\ Parent(pos) \in DOMAIN tree
    /\ tree[pos].parent_path = Folder_get(tree[Parent(pos)])
    /\ Folder_get(tree[pos]) = Append(Folder_get(tree[Parent(pos)]), tree[pos].name)

\* mkdir has made a node two levels below the root
C22_MadeNodeOfDepthTwo ==
  /\ fcall.op = "mkdir"
  /\ fcall.err = "none"
  /\ \E pos \in DOMAIN tree : Len(pos) = 2 /\ tree[pos].pn_object = "None"

\* the node of the last part of the chain, seen from the node of the call
DeepestNode ==
  [kind |-> "Folder", pos |-> fcall.pos \o CanonicalKeys(fcall.args), path |-> <<>>]

\* C23: mkdir(c1, ..., cn) that raised nothing returns the Folder of cn, the
\* deepest level of the chain it made or found.
C23_MkdirReturnsDeepestNode ==
  (fcall.op = "mkdir" /\ fcall.err = "none") => fcall.ret = DeepestNode

\* mkdir made or found the chain and returned None
C23_ReturnedNone ==
  /\ fcall.op = "mkdir"
  /\ fcall.err = "none"
  /\ DeepestNode.pos \in DOMAIN tree
  /\ fcall.ret = NoRet

\* the node of the deepest level is in the tree after every mkdir that raised
\* nothing
C23_DeepestNodeIsTracked ==
  (fcall.op = "mkdir" /\ fcall.err = "none" /\ ~auto_reload)
    => DeepestNode.pos \in DOMAIN tree

\* the bounds of the last call of create
MaxDepthGiven == fcall.args[1]

MaxFilesGiven == fcall.args[2]

MaxFoldersGiven == fcall.args[3]

\* C24: a navigator constructed with a maximum depth, a maximum of files and
\* a maximum of subfolders per directory is there after the call, and its
\* walk has left no node deeper than the first, and no node with more files
\* or more subfolders than the other two.
C24_WalkHonorsBounds ==
  fcall.op = "create" =>
    /\ fcall.err = "none"
    /\ \A pos \in DOMAIN tree :
         /\ Len(pos) <= MaxDepthGiven
         /\ Cardinality(DOMAIN tree[pos].files) <= MaxFilesGiven
         /\ Cardinality(subfolders(tree, pos)) <= MaxFoldersGiven

\* create was refused for its keywords
C24_CreateRefused ==
  fcall.op = "create" /\ fcall.err = "TypeError" /\ MaxDepthGiven = 1

\* the walk of a navigator constructed without bounds went two levels down
C24_WalkedTwoLevelsDown ==
  /\ fcall.op = "PathNavigator"
  /\ fcall.err = "none"
  /\ \E pos \in DOMAIN tree : Len(pos) = 2

(***************************************************************************)
(* Claims about the registry under add, remove and clear.                   *)
(***************************************************************************)
\* the calls of add that stored a shortcut under key
StoredUnder(key) ==
  {i \in 1..Len(log) : log[i].op = "add" /\ log[i].err = "none" /\ log[i].key = key}

\* the name given to the add call that made the entry now stored under key
CreatorName(key) ==
  log[CHOOSE i \in StoredUnder(key) : \A j \in StoredUnder(key) : j <= i].name

\* C25: after any sequence of add, remove and clear, to_dict has one key per
\* entry of the registry, and the key of an entry is the name given to the
\* add call that stored it, with the path of the entry as its value.
C25_ExportNamesTheCreators ==
  LET d == Shortcut_to_dict(sc)
  IN  /\ d.err = "none"
      /\ Cardinality(DOMAIN d.ret) = Cardinality(DOMAIN sc.dict)
      /\ \A k \in DOMAIN sc.dict :
           /\ CreatorName(k) \in DOMAIN d.ret
           /\ d.ret[CreatorName(k)] = str(sc.dict[k])

\* to_dict has one key, with the path, for every entry whose key does not
\* begin with '_pn_'
C25_ExportHasOneKeyPerExportedEntry ==
  LET d == Shortcut_to_dict(sc)
  IN  /\ d.err = "none"
      /\ Cardinality(DOMAIN d.ret) = Cardinality(ExportedKeys(sc))
      /\ \A k \in ExportedKeys(sc) :
           d.ret[get_org(sc.pn_converter.conv, k)] = str(sc.dict[k])

\* '.n' was added and removed, '_n' was added, and to_dict names the entry
\* '.n'
C25_ExportedRemovedName ==
  /\ Len(log) = 3
  /\ log[1].op = "add" /\ log[1].name = <<".", "n">> /\ log[1].err = "none"
  /\ log[2].op = "remove" /\ log[2].name = <<".", "n">> /\ log[2].err = "none"
  /\ log[3].op = "add" /\ log[3].name = <<"_", "n">> /\ log[3].err = "none"
  /\ DOMAIN Shortcut_to_dict(sc).ret = {<<".", "n">>}

\* the last call was clear()
Cleared == Len(log) > 0 /\ log[Len(log)].op = "clear"

\* the names of the add calls that stored a shortcut
NamesAdded == {log[i].name : i \in {j \in 1..Len(log) : log[j].op = "add" /\ log[j].err = "none"}}

\* C29: after clear() the registry holds no shortcut: get fails with
\* AttributeError on every name that was added before, and to_dict is empty.
C29_ClearLeavesNothing ==
  Cleared =>
    /\ DOMAIN sc.dict = {}
    /\ \A name \in NamesAdded : Shortcut_get(sc, name).err = "AttributeError"
    /\ Shortcut_to_dict(sc) = [err |-> "none", ret |-> EmptyDict]

\* the same for the names whose key does not begin with '_pn_'
C29_ClearLeavesNoPublicKey ==
  Cleared =>
    /\ \A name \in NamesAdded :
         ~startswith(get_valid(sc.pn_converter.conv, name), PrivatePrefix)
           => Shortcut_get(sc, name).err = "AttributeError"
    /\ Shortcut_to_dict(sc) = [err |-> "none", ret |-> EmptyDict]

\* a shortcut added as '.pn_' is still returned after clear()
C29_PrivateKeySurvivedClear ==
  /\ Cleared
  /\ <<".", "p", "n", "_">> \in NamesAdded
  /\ Shortcut_get(sc, <<".", "p", "n", "_">>).err = "none"

(***************************************************************************)
(* Claims about Folder.remove and the filesystem.                           *)
(***************************************************************************)
\* a step of node.remove(name) on a name whose key the node tracks
RemoveOfTracked ==
  /\ ncalls' = ncalls + 1
  /\ fcall'.op = "remove"
  /\ fcall'.pre.in_subfolders \/ fcall'.pre.in_files

\* what shutil.rmtree and os.remove raise
DeletionErrors == {"FileNotFoundError", "NotADirectoryError", "IsADirectoryError"}

\* no node has come or gone and every node tracks the files it tracked
SameEntries ==
  /\ DOMAIN tree' = DOMAIN tree
  /\ \A pos \in DOMAIN tree : tree'[pos].files = tree[pos].files

\* C26: remove deletes on the filesystem before it updates the node: when
\* the deletion of a tracked child fails the call fails with that error, the
\* child is still tracked and no node has been replaced by a reload.
C26_FailedDeletionChangesNothing ==
  [][RemoveOfTracked =>
       /\ (~fcall'.pre.in_subfolders /\ os_remove(fs, fcall'.pre.file).err # "none")
            => fcall'.err = os_remove(fs, fcall'.pre.file).err
       /\ fcall'.err \in DeletionErrors => SameEntries]_vars

\* remove failed on a tracked file that is gone, with the reload flag on
C26_DeletionOfTrackedFailed ==
  /\ fcall.op = "remove"
  /\ fcall.pre.in_files
  /\ ~fcall.pre.in_subfolders
  /\ fcall.err = "FileNotFoundError"
  /\ auto_reload

\* the full path of the child that the node of the call holds under the key
\* of the name of the call
ChildPath ==
  Folder_get(tree[Append(fcall'.pos, KeyIn(tree, fcall'.pos, fcall'.args[1]))])

\* a step of node.remove(name) on a tracked subfolder whose directory exists,
\* name being the name of the directory or the key of the child
RemoveOfSubfolder ==
  /\ ncalls' = ncalls + 1
  /\ fcall'.op = "remove"
  /\ fcall'.pre.in_subfolders
  /\ is_dir(fs, ChildPath)
  /\ fcall'.args[1] \in {Basename(ChildPath), KeyIn(tree, fcall'.pos, fcall'.args[1])}

\* C27: remove(name) on a tracked subfolder, given by its name or by its
\* key, on any node, deletes the directory at the full path of the child
\* node of that key, with its content, and no other entry of the filesystem.
C27_RemoveDeletesTheChildsDirectory ==
  [][RemoveOfSubfolder =>
       /\ fcall'.err \notin DeletionErrors
       /\ fs' = Removed(fs, ChildPath)]_vars

\* the same for a call on the root with the name the walk found last for
\* the key
C27_RemoveByLastNameOnRoot ==
  [][(/\ RemoveOfSubfolder
      /\ fcall'.pos = RootPos
      /\ fcall'.args[1] = Basename(ChildPath)
      /\ get(tree[RootPos].converter, KeyIn(tree, RootPos, fcall'.args[1]))
           = fcall'.args[1])
       => (fcall'.err \notin DeletionErrors /\ fs' = Removed(fs, ChildPath))]_vars

\* remove by key on a node below the root found no directory to delete
C27_KeyNotFoundBelowRoot ==
  /\ fcall.op = "remove"
  /\ fcall.pos # RootPos
  /\ fcall.pre.in_subfolders
  /\ CanonicalKey(fcall.args[1]) = fcall.args[1]
  /\ fcall.err = "FileNotFoundError"
  /\ fcall.pos \in DOMAIN tree
  /\ is_dir(fs, Folder_get(tree[Append(fcall.pos, fcall.args[1])]))

\* C28: after any sequence of walk, reload, mkdir and remove, with the
\* reload flag on or off, every node of the tree holds the root that owns
\* it.
C28_EveryNodeHoldsTheRoot ==
  \A pos \in DOMAIN tree : tree[pos].pn_object = "root"

\* the same with the reload flag on, after a call that raised nothing
C28_OwnedAfterReload ==
  (auto_reload /\ fcall.op \in {"mkdir", "remove"} /\ fcall.err = "none")
    => \A pos \in DOMAIN tree : tree[pos].pn_object = "root"

\* mkdir has left a node without owner in the tree
C28_MadeNodeWithoutOwner ==
  /\ fcall.op = "mkdir"
  /\ fcall.err = "none"
  /\ ~auto_reload
  /\ \E pos \in DOMAIN tree : tree[pos].pn_object = "None"


\* the call to_valid_name(e.ret) on the converter that returned e.ret
SecondCall(e) == to_valid_name(converter, e.ret, invalid_list)

\* C30: to_valid_name is idempotent on its own output: for every accepted
\* name s, to_valid_name(to_valid_name(s)) raises nothing and equals
\* to_valid_name(s).
C30_KeyOfKeyIsTheKey ==
  \A e \in Entries :
    Accepted(e) =>
      /\ SecondCall(e).err = "none"
      /\ SecondCall(e).ret = e.ret

\* the same for the keys that do not begin with '_pn_'
C30_KeyOfPublicKeyIsTheKey ==
  \A e \in Entries :
    (Accepted(e) /\ ~startswith(e.ret, PrivatePrefix)) =>
      /\ SecondCall(e).err = "none"
      /\ SecondCall(e).ret = e.ret

\* a rewritten name whose key the converter refuses
C30_KeyRefused ==
  \E e \in Entries :
    /\ Accepted(e)
    /\ Rewrote(e)
    /\ SecondCall(e).err # "none"

====
